---- MODULE Spec2Model ----
(***************************************************************************)
(* Dependabot -> Jira synchronisation (src/main.js, src/jira.js,           *)
(* src/github.js).  One run of run() is modelled as a sequence of steps:   *)
(* RunStart (getConfig + getDependabotAlerts + the empty-list return),     *)
(* ProcessAlert (one iteration of the create/update loop),                 *)
(* BeginAutoClose (the enable flag and findOpenDependabotIssues),          *)
(* AutoCloseIssue (one iteration of the auto-close loop), Finish (summary  *)
(* and outputs).  Rerun schedules the next invocation of the action on the *)
(* ticket state the previous one left behind.                              *)
(*                                                                         *)
(* The two upstream services are collaborators: the alert source answers   *)
(* nondeterministically (any alert list, any alert status), the ticket     *)
(* system is the variable `tickets`, and every network call may fail.      *)
(*                                                                         *)
(* SeededSpec is one invocation on a project that already holds a ticket   *)
(* somebody else filed.                                                    *)
(*                                                                         *)
(* FnSpec is the harness of the functions taken on their own: the severity *)
(* filter of getDependabotAlerts, the due-day inputs of getConfig,         *)
(* calculateDueDate, parseAlert, closeJiraIssue and the identity a ticket   *)
(* gets from createJiraIssue.  Its initial states draw the arguments, its   *)
(* actions apply the function to them.                                     *)
(***************************************************************************)
EXTENDS Integers, Sequences, FiniteSets, TLC

\* ---------------------------------------------------------------- bounds
MaxAlerts == 2          \* alert numbers are 1..MaxAlerts
MaxRuns == 2            \* invocations of the action in one behaviour
MaxFaults == 1          \* injected transport failures per invocation

\* ------------------------------------------------------- program constants
MaxResults == 100       \* maxResults of the open-issue search

AlertNumbers == 1..MaxAlerts

\* Project keys are character sequences; the ticket system hosts one project.
GoodKey == <<"S", "E", "C">>
BadKey == <<"S", ";">>
NoKey == <<>>
KeyChars == {"S", "E", "C", "1", "-"}

NoSeverity == "none"
RawSeverities == {"low", "critical", NoSeverity}
SeverityLevels == <<"low", "medium", "high", "critical">>

CloseTransition == "Done"
CloseCommentText == "closed"

\* ---------------------------------------------------------------- helpers
ToLower(s) ==
  CASE s = "DONE" -> "done"
    [] s = "Done" -> "done"
    [] s = "Resolved" -> "resolved"
    [] s = "Close" -> "close"
    [] s = "In Progress" -> "in progress"
    [] s = "Critical" -> "critical"
    [] s = "HIGH" -> "high"
    [] s = "Medium" -> "medium"
    [] OTHER -> s

\* Array.prototype.indexOf on severityLevels: 0-based position, -1 if absent
IndexOf(levels, x) ==
  IF \E k \in DOMAIN levels : levels[k] = x
  THEN (CHOOSE k \in DOMAIN levels : levels[k] = x) - 1
  ELSE -1

Min(a, b) == IF a <= b THEN a ELSE b

Range(s) == {s[k] : k \in DOMAIN s}

\* sequences without repetition over a set, of length at most n
DistinctSeqs(S, n) ==
  UNION {{q \in [1..k -> S] : \A a, b \in 1..k : a # b => q[a] # q[b]} :
         k \in 0..n}

\* Number.prototype.toString: decimal digits
RECURSIVE toDecimalString(_)
toDecimalString(n) ==
  LET d == <<"0", "1", "2", "3", "4", "5", "6", "7", "8", "9">>
  IN IF n < 10 THEN <<d[n + 1]>>
     ELSE toDecimalString(n \div 10) \o <<d[(n % 10) + 1]>>

\* ------------------------------------------------ due days and due dates
\* A JavaScript value: absent (undefined), null, NaN, a number, or a string
\* (a sequence of tokens).  An object is a record of such values and
\* objects; it has no field "kind".
Absent == [kind |-> "absent", n |-> 0]
Null == [kind |-> "null", n |-> 0]
NaN == [kind |-> "NaN", n |-> 0]
Num(n) == [kind |-> "number", n |-> n]
Str(s) == [kind |-> "string", s |-> s]

\* truthiness of such a value: undefined, null, NaN, 0 and '' are falsy
Truthy(v) ==
  IF "kind" \in DOMAIN v
    THEN \/ v.kind = "number" /\ v.n # 0
         \/ v.kind = "string" /\ v.s # <<>>
  ELSE TRUE

\* a || b
OrElse(a, b) == IF Truthy(a) THEN a ELSE b

\* obj.name: undefined when the object has no such property
Field(obj, name) == IF name \in DOMAIN obj THEN obj[name] ELSE Absent

\* obj?.name
Opt(obj, name) ==
  IF "kind" \in DOMAIN obj THEN Absent ELSE Field(obj, name)

\* str?.toLowerCase()
toLowerCase(v) ==
  IF v.kind = "string" THEN Str([k \in DOMAIN v.s |-> ToLower(v.s[k])])
  ELSE v

\* the object {}
EmptyObject == <<>>

Severities == {"critical", "high", "medium", "low"}

\* the inputs of the action are strings: sequences of characters
Digits == <<"0", "1", "2", "3", "4", "5", "6", "7", "8", "9">>

DigitValue(c) == (CHOOSE k \in DOMAIN Digits : Digits[k] = c) - 1

\* the length of the run of digits a string starts with
RECURSIVE LeadingDigits(_)
LeadingDigits(str) ==
  IF str = <<>> \/ Head(str) \notin Range(Digits) THEN 0
  ELSE 1 + LeadingDigits(Tail(str))

RECURSIVE DigitsValue(_)
DigitsValue(str) ==
  IF str = <<>> THEN 0
  ELSE 10 * DigitsValue(SubSeq(str, 1, Len(str) - 1))
         + DigitValue(str[Len(str)])

\* parseInt(str, 10) of an unsigned string: the leading digits, NaN if none
parseInt(str) ==
  IF LeadingDigits(str) = 0 THEN NaN
  ELSE Num(DigitsValue(SubSeq(str, 1, LeadingDigits(str))))

\* the length of the run of white space a string starts with
RECURSIVE LeadingSpaces(_)
LeadingSpaces(str) ==
  IF str = <<>> \/ Head(str) # " " THEN 0
  ELSE 1 + LeadingSpaces(Tail(str))

\* the result of a match that found nothing
NoMatch == <<>>

\* String.prototype.match of /<marker>(\d+)/, or of /<marker>\s*(\d+)/ when
\* spaces is set: group 1 of the leftmost match.  The marker is one token.
MatchNumberAfter(text, marker, spaces) ==
  LET From(k) == SubSeq(text, k, Len(text))
      Start(k) == k + 1 + (IF spaces THEN LeadingSpaces(From(k + 1)) ELSE 0)
      hits == {k \in DOMAIN text :
                 text[k] = marker /\ LeadingDigits(From(Start(k))) > 0}
  IN IF hits = {} THEN NoMatch
     ELSE LET k == CHOOSE h \in hits : \A m \in hits : h <= m
          IN SubSeq(text, Start(k),
                    Start(k) + LeadingDigits(From(Start(k))) - 1)

\* `default:` of the four due-day inputs in action.yml
ManifestDefault ==
  [critical |-> <<"1">>, high |-> <<"7">>, medium |-> <<"3", "0">>,
   low |-> <<"9", "0">>]

\* what core.getInput reads: the text of the workflow's `with:` entry, or the
\* manifest's default when the workflow has no entry for the input
getInput(with, name) ==
  IF with[name].given THEN with[name].text ELSE ManifestDefault[name]

\* config.jira.dueDays of getConfig (main.js 38-43)
getConfigDueDays(with) ==
  LET Or(str, d) == IF str = <<>> THEN d ELSE str
  IN [critical |-> parseInt(Or(getInput(with, "critical"), <<"7">>)),
      high |-> parseInt(Or(getInput(with, "high"), <<"1", "4">>)),
      medium |-> parseInt(Or(getInput(with, "medium"), <<"6", "0">>)),
      low |-> parseInt(Or(getInput(with, "low"), <<"9", "0">>))]

\* a configured 0 kept as the offset
DueDays_KeepsZero(severity, dueDaysConfig) ==
  LET Or(v, d) == IF v.kind = "number" THEN v.n ELSE d
      daysMap == [critical |-> Or(dueDaysConfig.critical, 1),
                  high |-> Or(dueDaysConfig.high, 7),
                  medium |-> Or(dueDaysConfig.medium, 30),
                  low |-> Or(dueDaysConfig.low, 90)]
  IN IF severity \in DOMAIN daysMap THEN daysMap[severity]
     ELSE daysMap.medium

\* daysMap and days of calculateDueDate (jira.js 48-55)
DueDays(severity, dueDaysConfig) ==
  LET Or(v, d) == IF Truthy(v) THEN v.n ELSE d
      daysMap == [critical |-> Or(dueDaysConfig.critical, 1),
                  high |-> Or(dueDaysConfig.high, 7),
                  medium |-> Or(dueDaysConfig.medium, 30),
                  low |-> Or(dueDaysConfig.low, 90)]
  IN IF severity \in DOMAIN daysMap /\ daysMap[severity] # 0
       THEN daysMap[severity]
     ELSE daysMap.medium

\* Instants are hours since the epoch.  Date.prototype.getDate and setDate
\* work on the local time of the process, toISOString on UTC.  Two zones: UTC,
\* and a zone whose clocks go forward by one hour at DstStart.
HoursPerDay == 24
DstStart == 73
Zones == {"UTC", "DST"}

UtcOffset(z, t) == IF z = "DST" /\ t >= DstStart THEN 1 ELSE 0

\* the local wall-clock reading of an instant, in hours
LocalTime(z, t) == t + UtcOffset(z, t)

\* the instant of a local wall-clock reading
FromLocal(z, l) == IF z = "DST" /\ l >= DstStart + 1 THEN l - 1 ELSE l

\* toISOString().split('T')[0]: the UTC day of an instant
IsoDate(t) == t \div HoursPerDay

\* no createdAt
NoTimestamp == -1

\* calculateDueDate (jira.js 47-61) at instant t in a process of zone z
calculateDueDate(severity, dueDaysConfig, createdAt, t, z) ==
  LET days == DueDays(severity, dueDaysConfig)
      baseDate == IF createdAt # NoTimestamp THEN createdAt ELSE t
      dueDate == FromLocal(z, LocalTime(z, baseDate) + HoursPerDay * days)
  IN IsoDate(dueDate)

\* ------------------------------------------------------------------ state
VARIABLES
  cfg,            \* the configuration read by getConfig
  run,            \* number of the current invocation
  pc,             \* position in run(): start, loop, autoclose, closing,
                  \* summary, done
  alerts,         \* the filtered alert list returned by getDependabotAlerts
  i,              \* index of the next alert of the create/update loop
  issuesCreated, issuesUpdated, issuesClosed,
  processedAlerts,\* length of the processedAlerts array
  openIssues,     \* keys returned by findOpenDependabotIssues
  j,              \* index of the next issue of the auto-close loop
  tickets,        \* the ticket system: issue key k is tickets[k]
  tickets0,       \* the ticket system when the invocation started
  calls,          \* network calls made by the latest step, in order
  logs,           \* core.error / core.warning messages of the latest step
  last,           \* what the latest loop iteration did, and the answer of
                  \* the alert source to its status lookup
  caught,         \* failures this invocation recovered from: the loop in
                  \* which an iteration threw, enumerate for the failed
                  \* enumeration of open issues
  createCalls,    \* per alert number: create requests sent by this invocation
  createFailed,   \* a create request of this invocation failed
  phases,         \* phases of run() this invocation entered: sync, close
  intended,       \* writes this invocation decided on, per kind
  outputs,        \* core.setOutput values
  failed,         \* core.setFailed was called
  failReason,     \* the message handed to core.setFailed, "" if none
  faults,         \* transport failures injected in this invocation
  prev,           \* what the previous invocation did
  now,            \* the clock of the runner: hours since the epoch, UTC
  zone,           \* the time zone of the runner's process
  probe           \* FnSpec: the function applied, its arguments and result

runVars == <<cfg, run, pc, alerts, i, issuesCreated, issuesUpdated,
             issuesClosed, processedAlerts, openIssues, j, tickets, tickets0,
             calls, logs, last, caught, createCalls, createFailed, phases,
             intended, outputs, failed, failReason, faults, prev>>

fnVars == <<now, zone, probe>>

vars == <<runVars, fnVars>>

\* a request: project is the key interpolated into a ticket query, <<>> for
\* the requests that carry none
Call(op, arg, ph, ok, res, project) ==
  [op |-> op, arg |-> arg, ph |-> ph, ok |-> ok, res |-> res,
   project |-> project]

Log(lvl, src, ref) == [lvl |-> lvl, src |-> src, ref |-> ref]

\* ------------------------------------------------------- the ticket system
ProjectExists(key) == key = GoodKey

\* the issue keys, in the ticket system's order
IssueKeys(tk) == [k \in 1..Len(tk) |-> k]

\* the texts the action writes into a summary and looks for in a ticket
SummaryMarker == "Dependabot Alert #"
BodyMarker == "Alert ID:"

\* text ~ "<phrase>": the words of the phrase occur in the text, in a row
ContainsPhrase(text, phrase) ==
  \E p \in DOMAIN text :
    /\ p + Len(phrase) - 1 <= Len(text)
    /\ SubSeq(text, p, p + Len(phrase) - 1) = phrase
    /\ p + Len(phrase) <= Len(text) =>
         text[p + Len(phrase)] \notin Range(Digits)

\* the search restricted to unresolved issues
SearchBySummary_OpenOnly(tk, alertId) ==
  LET phrase == <<SummaryMarker>> \o toDecimalString(alertId)
      Hit(k) == /\ ContainsPhrase(tk[k].summary, phrase)
                /\ tk[k].status \notin {"Done"}
  IN SelectSeq(IssueKeys(tk), Hit)

\* summary ~ "Dependabot Alert #<alertId>", any status
SearchBySummary(tk, alertId) ==
  LET phrase == <<SummaryMarker>> \o toDecimalString(alertId)
      Hit(k) == ContainsPhrase(tk[k].summary, phrase)
  IN SelectSeq(IssueKeys(tk), Hit)

\* labels = "dependabot" AND status not Done / Resolved / Closed
SearchOpenLabelled(tk) ==
  LET Hit(k) == /\ "dependabot" \in tk[k].labels
                /\ tk[k].status \notin {"Done", "Resolved", "Closed"}
      all == SelectSeq(IssueKeys(tk), Hit)
  IN SubSeq(all, 1, Min(Len(all), MaxResults))

AvailableTransitionChoices ==
  { << [id |-> 11, name |-> "In Progress"], [id |-> 31, name |-> "DONE"] >>,
    << [id |-> 11, name |-> "In Progress"] >> }

TransitionTarget(id) ==
  CASE id = 31 -> "Done"
    [] id = 41 -> "Resolved"
    [] OTHER -> "In Progress"

\* --------------------------------------------------------------- github.js
\* messages of the errors that reach the handler of run()
InputRequiredMessage == "Input required and not supplied"
TokenErrorMessage == "Failed to get installation token"
ListErrorMessage == "API rate limit exceeded"
ThresholdErrorMessage == "Invalid severity threshold"
JiraErrorMessage == "Jira API Error"

\* severityLevels.indexOf(value): strict equality, so only a string is found
IndexOfValue(levels, v) ==
  IF v.kind = "string" /\ Len(v.s) = 1 THEN IndexOf(levels, v.s[1]) ELSE -1

\* alert.security_advisory?.severity?.toLowerCase()
AlertSeverity(alert) ==
  toLowerCase(Opt(Field(alert, "security_advisory"), "severity"))

\* the failed listing answered with an empty list
getDependabotAlerts_SwallowsListError(raw, options, tokenOk, listOk) ==
  LET listCall == Call("listAlerts",
                       IF options.excludeDismissed THEN 1 ELSE 0,
                       "fetch", listOk, 0, <<>>)
      minSeverityIndex == IndexOf(SeverityLevels,
                                  ToLower(options.severityThreshold))
      Passes(alert) ==
        IndexOfValue(SeverityLevels, AlertSeverity(alert)) >= minSeverityIndex
  IN IF ~tokenOk
       THEN [threw |-> TRUE, message |-> TokenErrorMessage,
             alerts |-> <<>>, calls |-> <<>>]
     ELSE IF ~listOk
       THEN [threw |-> FALSE, message |-> "", alerts |-> <<>>,
             calls |-> <<listCall>>]
     ELSE IF minSeverityIndex = -1
       THEN [threw |-> TRUE, message |-> ThresholdErrorMessage,
             alerts |-> <<>>, calls |-> <<listCall>>]
     ELSE [threw |-> FALSE, message |-> "",
           alerts |-> SelectSeq(raw, Passes), calls |-> <<listCall>>]

\* an unrecognized threshold word read as the default word
getDependabotAlerts_DefaultsThreshold(raw, options, tokenOk, listOk) ==
  LET listCall == Call("listAlerts",
                       IF options.excludeDismissed THEN 1 ELSE 0,
                       "fetch", listOk, 0, <<>>)
      found == IndexOf(SeverityLevels, ToLower(options.severityThreshold))
      minSeverityIndex == IF found = -1 THEN 1 ELSE found
      Passes(alert) ==
        IndexOfValue(SeverityLevels, AlertSeverity(alert)) >= minSeverityIndex
  IN IF ~tokenOk
       THEN [threw |-> TRUE, message |-> TokenErrorMessage,
             alerts |-> <<>>, calls |-> <<>>]
     ELSE IF ~listOk
       THEN [threw |-> TRUE, message |-> ListErrorMessage,
             alerts |-> <<>>, calls |-> <<listCall>>]
     ELSE [threw |-> FALSE, message |-> "",
           alerts |-> SelectSeq(raw, Passes), calls |-> <<listCall>>]

\* an alert at the threshold itself filtered out
getDependabotAlerts_StrictlyAbove(raw, options, tokenOk, listOk) ==
  LET listCall == Call("listAlerts",
                       IF options.excludeDismissed THEN 1 ELSE 0,
                       "fetch", listOk, 0, <<>>)
      minSeverityIndex == IndexOf(SeverityLevels,
                                  ToLower(options.severityThreshold))
      Passes(alert) ==
        IndexOfValue(SeverityLevels, AlertSeverity(alert)) > minSeverityIndex
  IN IF ~tokenOk
       THEN [threw |-> TRUE, message |-> TokenErrorMessage,
             alerts |-> <<>>, calls |-> <<>>]
     ELSE IF ~listOk
       THEN [threw |-> TRUE, message |-> ListErrorMessage,
             alerts |-> <<>>, calls |-> <<listCall>>]
     ELSE IF minSeverityIndex = -1
       THEN [threw |-> TRUE, message |-> ThresholdErrorMessage,
             alerts |-> <<>>, calls |-> <<listCall>>]
     ELSE [threw |-> FALSE, message |-> "",
           alerts |-> SelectSeq(raw, Passes), calls |-> <<listCall>>]

\* getDependabotAlerts: token, listAlertsForRepo, threshold check, filter.
\* raw is the response of the alert source; tokenOk / listOk its failures.
getDependabotAlerts(raw, options, tokenOk, listOk) ==
  LET listCall == Call("listAlerts",
                       IF options.excludeDismissed THEN 1 ELSE 0,
                       "fetch", listOk, 0, <<>>)
      minSeverityIndex == IndexOf(SeverityLevels,
                                  ToLower(options.severityThreshold))
      Passes(alert) ==
        IndexOfValue(SeverityLevels, AlertSeverity(alert)) >= minSeverityIndex
  IN IF ~tokenOk
       THEN [threw |-> TRUE, message |-> TokenErrorMessage,
             alerts |-> <<>>, calls |-> <<>>]
     ELSE IF ~listOk
       THEN [threw |-> TRUE, message |-> ListErrorMessage,
             alerts |-> <<>>, calls |-> <<listCall>>]
     ELSE IF minSeverityIndex = -1
       THEN [threw |-> TRUE, message |-> ThresholdErrorMessage,
             alerts |-> <<>>, calls |-> <<listCall>>]
     ELSE [threw |-> FALSE, message |-> "",
           alerts |-> SelectSeq(raw, Passes), calls |-> <<listCall>>]

parseAlert(alert) ==
  LET advisory == OrElse(Field(alert, "security_advisory"), EmptyObject)
      vulnerability ==
        OrElse(Field(alert, "security_vulnerability"), EmptyObject)
      dependency == OrElse(Field(alert, "dependency"), EmptyObject)
      packageName == Opt(Field(dependency, "package"), "name")
  IN [id |-> alert.number,
      title |->
        OrElse(Field(advisory, "summary"),
               Str(<<"Vulnerability in ">>
                     \o OrElse(packageName, Str(<<"unknown">>)).s)),
      description |-> OrElse(Field(advisory, "description"),
                             Str(<<"No description available">>)),
      severity |-> OrElse(toLowerCase(Field(advisory, "severity")),
                          Str(<<"unknown">>)),
      package |-> OrElse(packageName, Str(<<"unknown">>)),
      ecosystem |-> OrElse(Opt(Field(dependency, "package"), "ecosystem"),
                           Str(<<"unknown">>)),
      vulnerableVersionRange |->
        OrElse(Field(vulnerability, "vulnerable_version_range"),
               Str(<<"unknown">>)),
      firstPatchedVersion |->
        OrElse(Opt(Field(vulnerability, "first_patched_version"),
                   "identifier"),
               Str(<<"Not available">>)),
      cvss |-> OrElse(Opt(Field(advisory, "cvss"), "score"), Null),
      cveId |-> OrElse(Field(advisory, "cve_id"), Null),
      ghsaId |-> OrElse(Field(advisory, "ghsa_id"), Null),
      url |-> Field(alert, "html_url"),
      createdAt |-> Field(alert, "created_at"),
      updatedAt |-> Field(alert, "updated_at"),
      state |-> Field(alert, "state"),
      dismissedAt |-> Field(alert, "dismissed_at"),
      dismissedReason |-> Field(alert, "dismissed_reason"),
      dismissedComment |-> Field(alert, "dismissed_comment")]

\* a property read from undefined or null
ReadsFromNullish(obj) == obj \in {Absent, Null}

\* the sub-structures read without their {} default
parseAlertThrows_NoDefaults(alert) ==
  \/ ReadsFromNullish(Field(alert, "security_advisory"))
  \/ ReadsFromNullish(Field(alert, "security_vulnerability"))
  \/ ReadsFromNullish(Field(alert, "dependency"))

\* parseAlert raises a TypeError: one of the objects whose properties it
\* reads without ?. is undefined or null
parseAlertThrows(alert) ==
  LET advisory == OrElse(Field(alert, "security_advisory"), EmptyObject)
      vulnerability ==
        OrElse(Field(alert, "security_vulnerability"), EmptyObject)
      dependency == OrElse(Field(alert, "dependency"), EmptyObject)
  IN \/ ReadsFromNullish(advisory)
     \/ ReadsFromNullish(vulnerability)
     \/ ReadsFromNullish(dependency)

StatusResponses ==
  {"open", "dismissed", "fixed", "auto_dismissed", "404", "error"}

\* the status inferred from the batch of the create/update phase
getAlertStatus_FromBatch(alertId, tokenOk, resp) ==
  [threw |-> FALSE,
   status |-> IF \E k \in DOMAIN alerts :
                    alerts[k].number = parseInt(alertId).n
                THEN "open" ELSE "fixed",
   calls |-> <<>>]

\* every failed lookup taken for a deleted alert
getAlertStatus_AllFailuresNotFound(alertId, tokenOk, resp) ==
  LET c == Call("getAlert", parseInt(alertId).n, "close",
                resp \notin {"404", "error"}, 0, <<>>)
  IN IF ~tokenOk THEN [threw |-> TRUE, status |-> "", calls |-> <<>>]
     ELSE [threw |-> FALSE,
           status |-> CASE resp = "404" -> "not_found"
                        [] resp = "error" -> "not_found"
                        [] OTHER -> resp,
           calls |-> <<c>>]

\* getAlertStatus: the token is acquired outside the try block
getAlertStatus(alertId, tokenOk, resp) ==
  LET c == Call("getAlert", parseInt(alertId).n, "close",
                resp \notin {"404", "error"}, 0, <<>>)
  IN IF ~tokenOk THEN [threw |-> TRUE, status |-> "", calls |-> <<>>]
     ELSE [threw |-> FALSE,
           status |-> CASE resp = "404" -> "not_found"
                        [] resp = "error" -> "unknown"
                        [] OTHER -> resp,
           calls |-> <<c>>]

\* ----------------------------------------------------------------- jira.js
\* the search failure propagated to the caller
findExistingIssue_Propagates(tk, projectKey, alertId, searchOk) ==
  LET hits == SearchBySummary(tk, alertId)
      found == IF searchOk /\ Len(hits) > 0 THEN hits[1] ELSE 0
  IN [threw |-> ~searchOk, issue |-> found,
      calls |-> <<Call("search", alertId, "sync", searchOk, found,
                      projectKey)>>,
      logs |-> <<>>]

\* the last issue of the search result returned
findExistingIssue_LastHit(tk, projectKey, alertId, searchOk) ==
  LET hits == SearchBySummary(tk, alertId)
      found == IF searchOk /\ Len(hits) > 0 THEN hits[Len(hits)] ELSE 0
  IN [threw |-> FALSE, issue |-> found,
      calls |-> <<Call("search", alertId, "sync", searchOk, found,
                      projectKey)>>,
      logs |-> IF searchOk THEN <<>>
               ELSE <<Log("warning", "findExistingIssue", alertId)>>]

\* findExistingIssue: the whole body is inside try/catch, so it never throws.
\* searchOk: the search request succeeded.
findExistingIssue(tk, projectKey, alertId, searchOk) ==
  LET hits == SearchBySummary(tk, alertId)
      found == IF searchOk /\ Len(hits) > 0 THEN hits[1] ELSE 0
  IN [threw |-> FALSE, issue |-> found,
      calls |-> <<Call("search", alertId, "sync", searchOk, found,
                      projectKey)>>,
      logs |-> IF searchOk THEN <<>>
               ELSE <<Log("warning", "findExistingIssue", alertId)>>]

\* the summary written with the title ahead of the marker
NewIssue_TitleFirst(config, alert) ==
  [summary |-> alert.title.s \o <<":", " ", SummaryMarker>>
                 \o toDecimalString(alert.id),
   description |-> <<"*Dependabot Security Alert #">>
                     \o toDecimalString(alert.id) \o <<"*">>
                     \o alert.description.s,
   duedate |-> calculateDueDate(
                 IF Len(alert.severity.s) = 1 THEN alert.severity.s[1]
                 ELSE "",
                 config.dueDays,
                 IF alert.createdAt.kind = "number" THEN alert.createdAt.n
                 ELSE NoTimestamp,
                 now, zone),
   status |-> "Open",
   labels |-> IF Len(config.labels) > 0 THEN Range(config.labels) ELSE {},
   comments |-> <<>>]

\* the issue the ticket system stores for the issueData of createJiraIssue
\* (jira.js 104-149)
NewIssue(config, alert) ==
  [summary |-> <<SummaryMarker>> \o toDecimalString(alert.id)
                 \o <<":", " ">> \o alert.title.s,
   description |-> <<"*Dependabot Security Alert #">>
                     \o toDecimalString(alert.id) \o <<"*">>
                     \o alert.description.s,
   duedate |-> calculateDueDate(
                 IF Len(alert.severity.s) = 1 THEN alert.severity.s[1]
                 ELSE "",
                 config.dueDays,
                 IF alert.createdAt.kind = "number" THEN alert.createdAt.n
                 ELSE NoTimestamp,
                 now, zone),
   status |-> "Open",
   labels |-> IF Len(config.labels) > 0 THEN Range(config.labels) ELSE {},
   comments |-> <<>>]

\* the sentinel key DRY-RUN-KEY
DryRunKey == 0

\* the create request sent whatever the dry-run flag says
createJiraIssue_IgnoresDryRun(tk, config, alert, dryRun, postOk) ==
  LET key == Len(tk) + 1
  IN IF postOk
       THEN [threw |-> FALSE, key |-> key,
             tk |-> Append(tk, NewIssue(config, alert)),
             calls |-> <<Call("createIssue", alert.id, "sync", TRUE, key,
                              config.projectKey)>>,
             logs |-> <<>>]
     ELSE [threw |-> TRUE, key |-> 0, tk |-> tk,
           calls |-> <<Call("createIssue", alert.id, "sync", FALSE, 0,
                            config.projectKey)>>,
           logs |-> <<Log("error", "createJiraIssue", alert.id)>>]

\* the failure of the create request logged and not thrown again
createJiraIssue_SwallowsError(tk, config, alert, dryRun, postOk) ==
  LET key == Len(tk) + 1
  IN IF dryRun
       THEN [threw |-> FALSE, key |-> DryRunKey, tk |-> tk, calls |-> <<>>,
             logs |-> <<>>]
     ELSE IF postOk
       THEN [threw |-> FALSE, key |-> key,
             tk |-> Append(tk, NewIssue(config, alert)),
             calls |-> <<Call("createIssue", alert.id, "sync", TRUE, key,
                              config.projectKey)>>,
             logs |-> <<>>]
     ELSE [threw |-> FALSE, key |-> 0, tk |-> tk,
           calls |-> <<Call("createIssue", alert.id, "sync", FALSE, 0,
                            config.projectKey)>>,
           logs |-> <<Log("error", "createJiraIssue", alert.id)>>]

createJiraIssue(tk, config, alert, dryRun, postOk) ==
  LET key == Len(tk) + 1
  IN IF dryRun
       THEN [threw |-> FALSE, key |-> DryRunKey, tk |-> tk, calls |-> <<>>,
             logs |-> <<>>]
     ELSE IF postOk
       THEN [threw |-> FALSE, key |-> key,
             tk |-> Append(tk, NewIssue(config, alert)),
             calls |-> <<Call("createIssue", alert.id, "sync", TRUE, key,
                              config.projectKey)>>,
             logs |-> <<>>]
     ELSE [threw |-> TRUE, key |-> 0, tk |-> tk,
           calls |-> <<Call("createIssue", alert.id, "sync", FALSE, 0,
                            config.projectKey)>>,
           logs |-> <<Log("error", "createJiraIssue", alert.id)>>]

AddComment(tk, key, text) ==
  [tk EXCEPT ![key].comments = Append(@, text)]

\* the update that also puts the issue back to Open
updateJiraIssue_Reopens(tk, issueKey, alert, dryRun, postOk) ==
  IF dryRun
    THEN [threw |-> FALSE, tk |-> tk, calls |-> <<>>, logs |-> <<>>]
  ELSE IF postOk
    THEN [threw |-> FALSE,
          tk |-> [AddComment(tk, issueKey, "update") EXCEPT
                    ![issueKey].status = "Open"],
          calls |-> <<Call("addComment", issueKey, "sync", TRUE, 0, <<>>)>>,
          logs |-> <<>>]
  ELSE [threw |-> TRUE, tk |-> tk,
        calls |-> <<Call("addComment", issueKey, "sync", FALSE, 0, <<>>)>>,
        logs |-> <<Log("error", "updateJiraIssue", issueKey)>>]

updateJiraIssue(tk, issueKey, alert, dryRun, postOk) ==
  IF dryRun
    THEN [threw |-> FALSE, tk |-> tk, calls |-> <<>>, logs |-> <<>>]
  ELSE IF postOk
    THEN [threw |-> FALSE, tk |-> AddComment(tk, issueKey, "update"),
          calls |-> <<Call("addComment", issueKey, "sync", TRUE, 0, <<>>)>>,
          logs |-> <<>>]
  ELSE [threw |-> TRUE, tk |-> tk,
        calls |-> <<Call("addComment", issueKey, "sync", FALSE, 0, <<>>)>>,
        logs |-> <<Log("error", "updateJiraIssue", issueKey)>>]

\* the failure of the enumeration propagated to the caller
findOpenDependabotIssues_Propagates(tk, projectKey, searchOk) ==
  [threw |-> ~searchOk,
   issues |-> IF searchOk THEN SearchOpenLabelled(tk) ELSE <<>>,
   calls |-> <<Call("searchOpen", 0, "close", searchOk, 0,
                   projectKey)>>,
   logs |-> <<>>]

\* findOpenDependabotIssues: the request is inside try/catch, a failure is
\* answered with a warning and the empty list
findOpenDependabotIssues(tk, projectKey, searchOk) ==
  [threw |-> FALSE,
   issues |-> IF searchOk THEN SearchOpenLabelled(tk) ELSE <<>>,
   calls |-> <<Call("searchOpen", 0, "close", searchOk, 0,
                   projectKey)>>,
   logs |-> IF searchOk THEN <<>>
            ELSE <<Log("warning", "findOpenDependabotIssues", 0)>>]

\* the description pattern tried before the summary pattern
extractAlertIdFromIssue_BodyFirst(issue) ==
  LET summaryMatch == MatchNumberAfter(issue.summary, SummaryMarker, FALSE)
      descriptionMatch ==
        MatchNumberAfter(issue.description, BodyMarker, TRUE)
  IN IF descriptionMatch # NoMatch THEN descriptionMatch
     ELSE IF summaryMatch # NoMatch THEN summaryMatch
     ELSE NoMatch

\* /Dependabot Alert #(\d+)/ on the summary first, then /Alert ID:\s*(\d+)/
\* on the description; NoMatch is null.  A ticket without summary or
\* description carries the empty text.
extractAlertIdFromIssue(issue) ==
  LET summaryMatch == MatchNumberAfter(issue.summary, SummaryMarker, FALSE)
      descriptionMatch ==
        MatchNumberAfter(issue.description, BodyMarker, TRUE)
  IN IF summaryMatch # NoMatch THEN summaryMatch
     ELSE IF descriptionMatch # NoMatch THEN descriptionMatch
     ELSE NoMatch

CloseFailures == {"none", "transitions", "comment", "transition"}

\* the names compared as they are
FindTransition_CaseSensitive(available, transition) ==
  LET hit == {k \in DOMAIN available : available[k].name = transition}
  IN IF hit = {} THEN 0
     ELSE available[CHOOSE k \in hit : \A m \in hit : k <= m].id

FindTransition(available, transition) ==
  LET hit == {k \in DOMAIN available :
                ToLower(available[k].name) = ToLower(transition)}
  IN IF hit = {} THEN 0
     ELSE available[CHOOSE k \in hit : \A m \in hit : k <= m].id

\* the message of a failed request
TransportErrorMessage == <<"Request failed">>

\* availableTransitions.map((t) => t.name).join(', ')
RECURSIVE JoinNames(_)
JoinNames(available) ==
  IF Len(available) = 0 THEN <<>>
  ELSE IF Len(available) = 1 THEN <<available[1].name>>
  ELSE <<available[1].name, ", ">> \o JoinNames(Tail(available))

\* the message of the error thrown when no transition has the name
NotAvailableMessage(transition, available) ==
  <<"Transition \"", transition,
    "\" not available. Available transitions: ">> \o JoinNames(available)

\* the transition applied before the comment is posted
closeJiraIssue_TransitionFirst(tk, issueKey, transition, comment, dryRun, available, fail) ==
  LET getT == Call("getTransitions", issueKey, "close",
                   fail # "transitions", 0, <<>>)
      target == FindTransition(available, transition)
      postC == Call("addComment", issueKey, "close", fail # "comment", 0,
                    <<>>)
      postT == Call("transition", issueKey, "close", fail # "transition",
                    target, <<>>)
      cCalls == IF comment # "" THEN <<postC>> ELSE <<>>
      tkC == IF comment # "" THEN AddComment(tk, issueKey, comment) ELSE tk
      err == <<Log("error", "closeJiraIssue", issueKey)>>
  IN IF dryRun
       THEN [threw |-> FALSE, closed |-> FALSE, dryRun |-> TRUE, tk |-> tk,
             calls |-> <<>>, logs |-> <<>>, error |-> <<>>]
     ELSE IF fail = "transitions"
       THEN [threw |-> TRUE, closed |-> FALSE, dryRun |-> FALSE, tk |-> tk,
             calls |-> <<getT>>, logs |-> err,
             error |-> TransportErrorMessage]
     ELSE IF target = 0
       THEN [threw |-> TRUE, closed |-> FALSE, dryRun |-> FALSE, tk |-> tk,
             calls |-> <<getT>>, logs |-> err,
             error |-> NotAvailableMessage(transition, available)]
     ELSE IF fail = "transition"
       THEN [threw |-> TRUE, closed |-> FALSE, dryRun |-> FALSE, tk |-> tk,
             calls |-> <<getT, postT>>, logs |-> err,
             error |-> TransportErrorMessage]
     ELSE IF comment # "" /\ fail = "comment"
       THEN [threw |-> TRUE, closed |-> FALSE, dryRun |-> FALSE,
             tk |-> [tk EXCEPT ![issueKey].status = TransitionTarget(target)],
             calls |-> <<getT, postT, postC>>, logs |-> err,
             error |-> TransportErrorMessage]
     ELSE [threw |-> FALSE, closed |-> TRUE, dryRun |-> FALSE,
           tk |-> [tkC EXCEPT ![issueKey].status = TransitionTarget(target)],
           calls |-> <<getT, postT>> \o cCalls, logs |-> <<>>,
           error |-> <<>>]

\* the requests sent whatever the dry-run flag says
closeJiraIssue_IgnoresDryRun(tk, issueKey, transition, comment, dryRun, available, fail) ==
  LET getT == Call("getTransitions", issueKey, "close",
                   fail # "transitions", 0, <<>>)
      target == FindTransition(available, transition)
      postC == Call("addComment", issueKey, "close", fail # "comment", 0,
                    <<>>)
      postT == Call("transition", issueKey, "close", fail # "transition",
                    target, <<>>)
      cCalls == IF comment # "" THEN <<postC>> ELSE <<>>
      tkC == IF comment # "" THEN AddComment(tk, issueKey, comment) ELSE tk
      err == <<Log("error", "closeJiraIssue", issueKey)>>
  IN IF fail = "transitions"
       THEN [threw |-> TRUE, closed |-> FALSE, dryRun |-> FALSE, tk |-> tk,
             calls |-> <<getT>>, logs |-> err,
             error |-> TransportErrorMessage]
     ELSE IF target = 0
       THEN [threw |-> TRUE, closed |-> FALSE, dryRun |-> FALSE, tk |-> tk,
             calls |-> <<getT>>, logs |-> err,
             error |-> NotAvailableMessage(transition, available)]
     ELSE IF comment # "" /\ fail = "comment"
       THEN [threw |-> TRUE, closed |-> FALSE, dryRun |-> FALSE, tk |-> tk,
             calls |-> <<getT, postC>>, logs |-> err,
             error |-> TransportErrorMessage]
     ELSE IF fail = "transition"
       THEN [threw |-> TRUE, closed |-> FALSE, dryRun |-> FALSE, tk |-> tkC,
             calls |-> <<getT>> \o cCalls \o <<postT>>, logs |-> err,
             error |-> TransportErrorMessage]
     ELSE [threw |-> FALSE, closed |-> TRUE, dryRun |-> FALSE,
           tk |-> [tkC EXCEPT ![issueKey].status = TransitionTarget(target)],
           calls |-> <<getT>> \o cCalls \o <<postT>>, logs |-> <<>>,
           error |-> <<>>]

\* closeJiraIssue: available is the answer of the transitions request,
\* fail names the request that fails (if any)
closeJiraIssue(tk, issueKey, transition, comment, dryRun, available, fail) ==
  LET getT == Call("getTransitions", issueKey, "close",
                   fail # "transitions", 0, <<>>)
      target == FindTransition(available, transition)
      postC == Call("addComment", issueKey, "close", fail # "comment", 0,
                    <<>>)
      postT == Call("transition", issueKey, "close", fail # "transition",
                    target, <<>>)
      cCalls == IF comment # "" THEN <<postC>> ELSE <<>>
      tkC == IF comment # "" THEN AddComment(tk, issueKey, comment) ELSE tk
      err == <<Log("error", "closeJiraIssue", issueKey)>>
  IN IF dryRun
       THEN [threw |-> FALSE, closed |-> FALSE, dryRun |-> TRUE, tk |-> tk,
             calls |-> <<>>, logs |-> <<>>, error |-> <<>>]
     ELSE IF fail = "transitions"
       THEN [threw |-> TRUE, closed |-> FALSE, dryRun |-> FALSE, tk |-> tk,
             calls |-> <<getT>>, logs |-> err,
             error |-> TransportErrorMessage]
     ELSE IF target = 0
       THEN [threw |-> TRUE, closed |-> FALSE, dryRun |-> FALSE, tk |-> tk,
             calls |-> <<getT>>, logs |-> err,
             error |-> NotAvailableMessage(transition, available)]
     ELSE IF comment # "" /\ fail = "comment"
       THEN [threw |-> TRUE, closed |-> FALSE, dryRun |-> FALSE, tk |-> tk,
             calls |-> <<getT, postC>>, logs |-> err,
             error |-> TransportErrorMessage]
     ELSE IF fail = "transition"
       THEN [threw |-> TRUE, closed |-> FALSE, dryRun |-> FALSE, tk |-> tkC,
             calls |-> <<getT>> \o cCalls \o <<postT>>, logs |-> err,
             error |-> TransportErrorMessage]
     ELSE [threw |-> FALSE, closed |-> TRUE, dryRun |-> FALSE,
           tk |-> [tkC EXCEPT ![issueKey].status = TransitionTarget(target)],
           calls |-> <<getT>> \o cCalls \o <<postT>>, logs |-> <<>>,
           error |-> <<>>]

\* ----------------------------------------------------------------- main.js
\* the due days of a workflow that sets none of the four inputs
DefaultDueDays ==
  getConfigDueDays([sv \in Severities |-> [given |-> FALSE, text |-> <<>>]])

Configs ==
  [projectKey : {GoodKey, BadKey, NoKey},
   labels : {<<"dependabot", "security">>},
   severityThreshold : {"medium", "HIGH", "bogus"},
   excludeDismissed : {TRUE},
   updateExisting : BOOLEAN,
   autoCloseResolved : BOOLEAN,
   closeTransition : {CloseTransition},
   closeComment : {CloseCommentText},
   dryRun : BOOLEAN,
   dueDays : {DefaultDueDays}]

\* responses of listAlertsForRepo: distinct alert numbers, any severities
RawAlert(number, severity) ==
  IF severity = NoSeverity THEN [number |-> number]
  ELSE [number |-> number,
        security_advisory |-> [severity |-> Str(<<severity>>)]]

RawAlertLists ==
  UNION {{[k \in 1..Len(q) |-> RawAlert(q[k], sv[k])] :
            sv \in [1..Len(q) -> RawSeverities]} :
         q \in DistinctSeqs(AlertNumbers, MaxAlerts)}

NoOutputs == [n \in {} |-> <<>>]

\* the early return that sets no output
NoAlertsOutputs_Nothing == NoOutputs

\* the outputs set when no alert matches (main.js 86-93)
NoAlertsOutputs ==
  [n \in {"issues-created", "issues-updated", "alerts-processed",
          "summary"} |->
     IF n = "summary"
       THEN [wording |-> "No alerts to process", created |-> 0,
             updated |-> 0, closed |-> 0]
     ELSE <<"0">>]

\* an existing issue that is not to be updated gets a new issue
AlertAction_CreateWhenNotUpdating(existingIssue, updateExisting) ==
  IF existingIssue # 0 /\ updateExisting THEN "UPDATE" ELSE "CREATE"

\* the list walked from its end
AlertAt_Reversed(list, k) == list[Len(list) + 1 - k]

\* every iteration handed the first alert of the list
AlertAt_First(list, k) == list[1]

\* the alert of the k-th iteration of `for (const alert of alerts)`
AlertAt(list, k) == list[k]

\* an existing issue updated whatever update-existing says
AlertAction_UpdateAlways(existingIssue, updateExisting) ==
  IF existingIssue # 0 THEN "UPDATE" ELSE "CREATE"

\* the branch taken for one alert (main.js 121-151)
AlertAction(existingIssue, updateExisting) ==
  IF existingIssue # 0
    THEN (IF updateExisting THEN "UPDATE" ELSE "SKIP")
  ELSE "CREATE"

\* the updated counter incremented outside its branch
CounterDelta_UpdatedAlways(action) ==
  [created |-> IF action = "CREATE" THEN 1 ELSE 0, updated |-> 1]

\* counter increments after the write of the branch returned
CounterDelta(action) ==
  [created |-> IF action = "CREATE" THEN 1 ELSE 0,
   updated |-> IF action = "UPDATE" THEN 1 ELSE 0]

\* the exception of one alert rethrown to the outer handler of run()
AlertLoopCatch_Rethrow(threw) == [continue |-> FALSE, failed |-> threw]

\* catch block of the create/update loop (main.js 152-155)
AlertLoopCatch(threw) == [continue |-> TRUE, failed |-> FALSE]

\* everything that is not open is closed
ShouldClose_NotOpen(alertStatus) == alertStatus # "open"

\* the close condition of the auto-close loop (main.js 182-186)
ShouldClose(alertStatus) ==
  alertStatus = "fixed" \/ alertStatus = "dismissed"
    \/ alertStatus = "not_found"

\* the comment handed to closeJiraIssue (main.js 187-192)
CloseCommentFor(closeComment, alertStatus) ==
  IF alertStatus = "not_found" THEN "closed: deleted" ELSE "closed: resolved"

\* the closed counter after closeJiraIssue returned (main.js 202)
ClosedAfter(n) == n + 1

\* the exception of one issue rethrown to the outer handler of run()
IssueLoopCatch_Rethrow(threw) == [continue |-> FALSE, failed |-> threw]

\* the exception of one issue caught by the handler around the whole phase
IssueLoopCatch_AbortPhase(threw) == [continue |-> FALSE, failed |-> FALSE]

\* catch block of the auto-close loop (main.js 218-223)
IssueLoopCatch(threw) == [continue |-> TRUE, failed |-> FALSE]

Summary(dryRun, created, updated, closed) ==
  [wording |-> IF dryRun THEN "conditional" ELSE "past",
   created |-> created, updated |-> updated, closed |-> closed]

NoWrites == [created |-> 0, updated |-> 0, closed |-> 0]

NoStep ==
  [kind |-> "none", id |-> 0, key |-> 0, searchOk |-> TRUE,
   action |-> "", resp |-> "", status |-> "", result |-> "", ok |-> TRUE]

\* ------------------------------------------------ arguments of the harness
\* severities of an advisory: the four levels, a capitalised one, a word
\* that is no level, and none
AdvisorySeverities ==
  {"low", "medium", "high", "critical", "Critical", "moderate", NoSeverity}

ThresholdWords == {"low", "medium", "high", "critical", "HIGH", "bogus"}

\* severities after parseAlert
ParsedSeverities == Severities \cup {"unknown"}

\* `with:` entries of a due-day input: none, empty, a number, a word
WithEntries ==
  {[given |-> FALSE, text |-> <<>>], [given |-> TRUE, text |-> <<>>],
   [given |-> TRUE, text |-> <<"1", "4">>], [given |-> TRUE, text |-> <<"x">>]}

WithBlocks == [Severities -> WithEntries]

\* dueDays objects handed to calculateDueDate
DueDaysConfigs ==
  [critical : {Absent, NaN, Num(0), Num(2)},
   high : {Absent, Num(0), Num(3)},
   medium : {Absent, NaN, Num(0), Num(4)},
   low : {Absent, Num(0), Num(5)}]

CreatedInstants == {0, 8, 23, 47, NoTimestamp}

RunInstants == {0, 30, 200}

\* security_advisory of a raw alert: none, complete, a severity in capitals
\* only, and one whose summary is empty, score 0 and CVE null
AdvisoryOptions ==
  {Absent,
   [summary |-> Str(<<"Prototype pollution">>),
    description |-> Str(<<"lodash merges", " ", "__proto__">>),
    severity |-> Str(<<"high">>), cvss |-> [score |-> Num(98)],
    cve_id |-> Str(<<"CVE-2019-10744">>),
    ghsa_id |-> Str(<<"GHSA-jf85-cpcp-j695">>)],
   [severity |-> Str(<<"HIGH">>)],
   [summary |-> Str(<<>>), severity |-> Str(<<"low">>),
    cvss |-> [score |-> Num(0)], cve_id |-> Null]}

VulnerabilityOptions ==
  {Absent,
   [vulnerable_version_range |-> Str(<<"< 4.17.12">>),
    first_patched_version |-> [identifier |-> Str(<<"4.17.12">>)]],
   [vulnerable_version_range |-> Str(<<"< 2">>),
    first_patched_version |-> Null]}

DependencyOptions ==
  {Absent,
   [package |-> [name |-> Str(<<"lodash">>), ecosystem |-> Str(<<"npm">>)]],
   [manifest_path |-> Str(<<"package.json">>)]}

\* a raw alert with the given sub-structures, Absent for a missing one
RawAlertOf(advisory, vulnerability, dependency) ==
  LET present ==
        {"number", "html_url", "state"}
          \cup (IF advisory # Absent THEN {"security_advisory"} ELSE {})
          \cup (IF vulnerability # Absent THEN {"security_vulnerability"}
                ELSE {})
          \cup (IF dependency # Absent THEN {"dependency"} ELSE {})
  IN [f \in present |->
        CASE f = "number" -> 1
          [] f = "html_url" -> Str(<<"https://github.com/o/r/alert/1">>)
          [] f = "state" -> Str(<<"open">>)
          [] f = "security_advisory" -> advisory
          [] f = "security_vulnerability" -> vulnerability
          [] OTHER -> dependency]

RawAlertProbes ==
  {RawAlertOf(a, v, d) : a \in AdvisoryOptions, v \in VulnerabilityOptions,
                         d \in DependencyOptions}

\* answers of the transitions request: the two of the run, the three of
\* the tests of closeJiraIssue, and none
TransitionLists ==
  AvailableTransitionChoices
    \cup {<< [id |-> 41, name |-> "Resolved"], [id |-> 31, name |-> "Done"],
             [id |-> 11, name |-> "In Progress"] >>,
          <<>>}

\* the transition names and the comments closeJiraIssue is called with
TransitionNames == {"Done", "done", "Close"}
CloseComments == {"", CloseCommentText}

NoProbe == [fn |-> "none", done |-> FALSE]

ProbeArguments ==
  [fn : {"filter"}, done : {FALSE}, severity : AdvisorySeverities,
   threshold : ThresholdWords]
  \cup [fn : {"getConfig"}, done : {FALSE}, with : WithBlocks]
  \cup [fn : {"calculateDueDate"}, done : {FALSE},
        severity : ParsedSeverities, dueDays : DueDaysConfigs,
        createdAt : CreatedInstants]
  \cup [fn : {"parseAlert"}, done : {FALSE}, alert : RawAlertProbes]
  \cup [fn : {"closeJiraIssue"}, done : {FALSE},
        transition : TransitionNames, comment : CloseComments,
        dryRun : BOOLEAN, available : TransitionLists, fail : CloseFailures]
  \cup [fn : {"ticketIdentity"}, done : {FALSE}, id : {1, 2, 12},
        title : {<<>>, <<"lodash">>, <<"7", " ", "CVEs">>,
                 <<"see", " ", SummaryMarker, "1">>},
        labels : {<<"dependabot", "security">>, <<"security">>}]

\* the first invocation, before run() is entered
StartOfRun ==
  /\ tickets0 = tickets
  /\ run = 1
  /\ pc = "start"
  /\ alerts = <<>>
  /\ i = 1
  /\ issuesCreated = 0 /\ issuesUpdated = 0 /\ issuesClosed = 0
  /\ processedAlerts = 0
  /\ openIssues = <<>>
  /\ j = 1
  /\ calls = <<>>
  /\ logs = <<>>
  /\ last = NoStep
  /\ caught = {}
  /\ createCalls = [n \in AlertNumbers |-> 0]
  /\ createFailed = FALSE
  /\ phases = {}
  /\ intended = NoWrites
  /\ outputs = NoOutputs
  /\ failed = FALSE
  /\ failReason = ""
  /\ faults = 0
  /\ prev = [ran |-> FALSE, alerts |-> <<>>, clean |-> FALSE]

InitRun ==
  /\ tickets = <<>>
  /\ StartOfRun

Init ==
  /\ cfg \in Configs
  /\ InitRun
  /\ now = 0
  /\ zone = "UTC"
  /\ probe = NoProbe

\* run() up to the alert loop: getConfig, getDependabotAlerts, empty list
RunStart ==
  /\ pc = "start"
  /\ IF cfg.projectKey = NoKey
       THEN /\ failed' = TRUE
            /\ failReason' = InputRequiredMessage
            /\ pc' = "done"
            /\ calls' = <<>>
            /\ UNCHANGED <<alerts, outputs, faults>>
       ELSE \E raw \in RawAlertLists, tokenOk \in BOOLEAN, listOk \in BOOLEAN :
              LET r == getDependabotAlerts(
                         raw,
                         [excludeDismissed |-> cfg.excludeDismissed,
                          severityThreshold |-> cfg.severityThreshold],
                         tokenOk, listOk)
              IN /\ ~tokenOk => listOk
                 /\ (~tokenOk \/ ~listOk) => raw = <<>>
                 /\ faults' = faults + (IF tokenOk /\ listOk THEN 0 ELSE 1)
                 /\ faults' <= MaxFaults
                 /\ calls' = r.calls
                 /\ IF r.threw
                      THEN /\ failed' = TRUE
                           /\ failReason' = r.message
                           /\ pc' = "done"
                           /\ UNCHANGED <<alerts, outputs>>
                    ELSE IF Len(r.alerts) = 0
                      THEN /\ outputs' = NoAlertsOutputs
                           /\ pc' = "done"
                           /\ UNCHANGED <<alerts, failed, failReason>>
                    ELSE /\ alerts' = r.alerts
                         /\ pc' = "loop"
                         /\ UNCHANGED <<outputs, failed, failReason>>
  /\ logs' = <<>>
  /\ phases' = IF pc' = "loop" THEN {"sync"} ELSE {}
  /\ UNCHANGED <<cfg, run, i, issuesCreated, issuesUpdated, issuesClosed,
                 processedAlerts, openIssues, j, tickets, tickets0, last,
                 caught, createCalls, createFailed, intended, prev, fnVars>>

\* one iteration of the create/update loop (main.js 107-156)
ProcessAlert ==
  /\ pc = "loop"
  /\ i <= Len(alerts)
  /\ \E parsedAlert \in {parseAlert(AlertAt(alerts, i))},
        searchT \in BOOLEAN, postT \in BOOLEAN :
     \E f \in {findExistingIssue(tickets, cfg.projectKey, parsedAlert.id,
                                  searchT /\ ProjectExists(cfg.projectKey))} :
     \E w \in {CASE f.threw ->
                  [threw |-> FALSE, tk |-> tickets, calls |-> <<>>,
                   logs |-> <<>>]
             [] ~f.threw
                  /\ AlertAction(f.issue, cfg.updateExisting) = "UPDATE" ->
                  updateJiraIssue(tickets, f.issue, parsedAlert, cfg.dryRun,
                                  postT)
             [] ~f.threw
                  /\ AlertAction(f.issue, cfg.updateExisting) = "CREATE" ->
                  createJiraIssue(tickets, cfg, parsedAlert, cfg.dryRun,
                                  postT /\ ProjectExists(cfg.projectKey))
             [] OTHER ->
                  [threw |-> FALSE, tk |-> tickets, calls |-> <<>>,
                   logs |-> <<>>]} :
       LET alert == AlertAt(alerts, i)
           exists == ProjectExists(cfg.projectKey)
           action == AlertAction(f.issue, cfg.updateExisting)
           threw == f.threw \/ w.threw
           delta == CounterDelta(action)
           c == AlertLoopCatch(threw)
           wrote == Len(w.calls) > 0
           createSent == wrote /\ action = "CREATE"
       IN /\ ~exists => searchT
          /\ (~wrote \/ ~exists) => postT
          /\ faults' = faults + (IF searchT THEN 0 ELSE 1)
                              + (IF postT THEN 0 ELSE 1)
          /\ faults' <= MaxFaults
          /\ processedAlerts' = processedAlerts + 1
          /\ tickets' = w.tk
          /\ calls' = f.calls \o w.calls
          /\ logs' = f.logs \o w.logs
                       \o (IF threw
                             THEN <<Log("error", "run", alert.number)>>
                           ELSE <<>>)
          /\ issuesCreated' = issuesCreated
                                + (IF threw THEN 0 ELSE delta.created)
          /\ issuesUpdated' = issuesUpdated
                                + (IF threw THEN 0 ELSE delta.updated)
          /\ last' = [kind |-> "alert", id |-> parsedAlert.id,
                      key |-> f.issue, searchOk |-> searchT /\ exists,
                      action |-> IF f.threw THEN "" ELSE action,
                      resp |-> "", status |-> "",
                      result |-> IF threw THEN "error" ELSE action,
                      ok |-> ~threw]
          /\ caught' = IF threw THEN caught \cup {"alert"} ELSE caught
          /\ createCalls' = IF createSent
                              THEN [createCalls EXCEPT
                                      ![parsedAlert.id] = @ + 1]
                            ELSE createCalls
          /\ createFailed' = (createFailed \/ (createSent /\ w.threw))
          /\ intended' = IF f.threw THEN intended
                         ELSE [intended EXCEPT
                                 !.created = @ + delta.created,
                                 !.updated = @ + delta.updated]
          /\ IF threw /\ ~c.continue
               THEN /\ failed' = c.failed
                    /\ failReason' = IF c.failed THEN JiraErrorMessage
                                     ELSE failReason
                    /\ pc' = IF c.failed THEN "done" ELSE "autoclose"
                    /\ i' = i
               ELSE /\ i' = i + 1
                    /\ pc' = IF i + 1 > Len(alerts) THEN "autoclose"
                             ELSE "loop"
                    /\ UNCHANGED <<failed, failReason>>
  /\ UNCHANGED <<cfg, run, alerts, issuesClosed, openIssues, j, tickets0,
                 phases, outputs, prev, fnVars>>

\* the auto-close flag and the enumeration (main.js 158-168, 233-235)
BeginAutoClose ==
  /\ pc = "autoclose"
  /\ IF cfg.autoCloseResolved
       THEN \E searchT \in BOOLEAN :
              LET exists == ProjectExists(cfg.projectKey)
                  r == findOpenDependabotIssues(tickets, cfg.projectKey,
                                                searchT /\ exists)
              IN /\ ~exists => searchT
                 /\ faults' = faults + (IF searchT THEN 0 ELSE 1)
                 /\ faults' <= MaxFaults
                 /\ openIssues' = IF r.threw THEN <<>> ELSE r.issues
                 /\ calls' = r.calls
                 /\ logs' = r.logs
                              \o (IF r.threw
                                    THEN <<Log("warning", "autoClose", 0)>>
                                  ELSE <<>>)
                 /\ phases' = phases \cup {"close"}
                 /\ caught' = IF searchT /\ exists THEN caught
                              ELSE caught \cup {"enumerate"}
                 /\ pc' = IF r.threw THEN "summary" ELSE "closing"
       ELSE /\ pc' = "summary"
            /\ calls' = <<>>
            /\ logs' = <<>>
            /\ UNCHANGED <<openIssues, faults, phases, caught>>
  /\ j' = 1
  /\ UNCHANGED <<cfg, run, alerts, i, issuesCreated, issuesUpdated,
                 issuesClosed, processedAlerts, tickets, tickets0, last,
                 createCalls, createFailed, intended, outputs, failed,
                 failReason, prev, fnVars>>

\* one iteration of the auto-close loop (main.js 170-224)
AutoCloseIssue ==
  /\ pc = "closing"
  /\ j <= Len(openIssues)
  /\ \E alertId \in {extractAlertIdFromIssue(tickets[openIssues[j]])},
        tokenOk \in BOOLEAN, resp \in StatusResponses,
        available \in AvailableTransitionChoices, fail \in CloseFailures :
     \E st \in {IF alertId = NoMatch
                   THEN [threw |-> FALSE, status |-> "", calls |-> <<>>]
                 ELSE getAlertStatus(alertId, tokenOk, resp)} :
     \E cl \in {IF alertId # NoMatch /\ ~st.threw /\ ShouldClose(st.status)
                   THEN closeJiraIssue(tickets, openIssues[j],
                                       cfg.closeTransition,
                                       CloseCommentFor(cfg.closeComment,
                                                       st.status),
                                       cfg.dryRun, available, fail)
                 ELSE [threw |-> FALSE, closed |-> FALSE, tk |-> tickets,
                       calls |-> <<>>, logs |-> <<>>]} :
       LET key == openIssues[j]
           closing == alertId # NoMatch /\ ~st.threw
                        /\ ShouldClose(st.status)
           threw == st.threw \/ cl.threw
           c == IssueLoopCatch(threw)
           failedCall == \E k \in DOMAIN cl.calls : ~cl.calls[k].ok
           result == CASE alertId = NoMatch -> "skipped"
                       [] alertId # NoMatch /\ threw -> "error"
                       [] alertId # NoMatch /\ ~threw /\ closing -> "closed"
                       [] alertId # NoMatch /\ ~threw /\ ~closing
                            /\ st.status = "open" -> "left"
                       [] OTHER -> "unknown"
       IN /\ (alertId = NoMatch \/ ~tokenOk) => resp = "open"
          /\ fail # "none" => failedCall
          /\ Len(cl.calls) = 0 => Len(available) = 2
          /\ faults' = faults + (IF tokenOk THEN 0 ELSE 1)
                              + (IF resp = "error" THEN 1 ELSE 0)
                              + (IF fail = "none" THEN 0 ELSE 1)
          /\ faults' <= MaxFaults
          /\ tickets' = cl.tk
          /\ calls' = st.calls \o cl.calls
          /\ logs' = cl.logs
                       \o (IF alertId = NoMatch
                             THEN <<Log("warning", "extractAlertIdFromIssue",
                                        key)>>
                           ELSE <<>>)
                       \o (IF result = "unknown"
                             THEN <<Log("warning", "unknownStatus", key)>>
                           ELSE <<>>)
                       \o (IF threw THEN <<Log("warning", "run", key)>>
                           ELSE <<>>)
          /\ issuesClosed' = IF closing /\ ~threw
                               THEN ClosedAfter(issuesClosed)
                             ELSE issuesClosed
          /\ last' = [kind |-> "issue",
                      id |-> IF alertId = NoMatch THEN 0
                             ELSE parseInt(alertId).n,
                      key |-> key,
                      searchOk |-> TRUE, action |-> "",
                      resp |-> IF st.calls = <<>> THEN "" ELSE resp,
                      status |-> st.status, result |-> result,
                      ok |-> ~threw]
          /\ caught' = IF threw THEN caught \cup {"issue"} ELSE caught
          /\ intended' = IF closing
                           THEN [intended EXCEPT !.closed = @ + 1]
                         ELSE intended
          /\ IF threw /\ ~c.continue
               THEN /\ failed' = c.failed
                    /\ failReason' = IF c.failed THEN JiraErrorMessage
                                     ELSE failReason
                    /\ pc' = IF c.failed THEN "done" ELSE "summary"
                    /\ j' = j
               ELSE /\ j' = j + 1
                    /\ pc' = "closing"
                    /\ UNCHANGED <<failed, failReason>>
  /\ UNCHANGED <<cfg, run, alerts, i, issuesCreated, issuesUpdated,
                 processedAlerts, openIssues, tickets0, createCalls,
                 createFailed, phases, outputs, prev, fnVars>>

\* summary and outputs (main.js 237-259)
Finish ==
  /\ \/ pc = "summary"
     \/ pc = "closing" /\ j > Len(openIssues)
  /\ outputs' =
       [n \in {"issues-created", "issues-updated", "issues-closed",
               "alerts-processed", "summary"} |->
          CASE n = "issues-created" -> toDecimalString(issuesCreated)
            [] n = "issues-updated" -> toDecimalString(issuesUpdated)
            [] n = "issues-closed" -> toDecimalString(issuesClosed)
            [] n = "alerts-processed" -> toDecimalString(processedAlerts)
            [] OTHER -> Summary(cfg.dryRun, issuesCreated, issuesUpdated,
                                issuesClosed)]
  /\ pc' = "done"
  /\ calls' = <<>>
  /\ logs' = <<>>
  /\ UNCHANGED <<cfg, run, alerts, i, issuesCreated, issuesUpdated,
                 issuesClosed, processedAlerts, openIssues, j, tickets,
                 tickets0, last, caught, createCalls, createFailed, phases,
                 intended, failed, failReason, faults, prev, fnVars>>

\* a new invocation starts on the tickets the previous one left behind
NextInvocation ==
  /\ pc = "done"
  /\ run < MaxRuns
  /\ run' = run + 1
  /\ pc' = "start"
  /\ alerts' = <<>>
  /\ i' = 1
  /\ issuesCreated' = 0 /\ issuesUpdated' = 0 /\ issuesClosed' = 0
  /\ processedAlerts' = 0
  /\ openIssues' = <<>>
  /\ j' = 1
  /\ tickets0' = tickets
  /\ calls' = <<>>
  /\ logs' = <<>>
  /\ last' = NoStep
  /\ caught' = {}
  /\ createCalls' = [n \in AlertNumbers |-> 0]
  /\ createFailed' = FALSE
  /\ phases' = {}
  /\ intended' = NoWrites
  /\ outputs' = NoOutputs
  /\ failed' = FALSE
  /\ failReason' = ""
  /\ faults' = 0
  /\ UNCHANGED <<tickets, fnVars>>

\* the workflow invokes the action again, in either mode
Rerun ==
  /\ NextInvocation
  /\ \E d \in BOOLEAN : cfg' = [cfg EXCEPT !.dryRun = d]
  /\ prev' = [ran |-> TRUE, alerts |-> alerts,
              clean |-> ~failed /\ ~cfg.dryRun /\ ~createFailed
                          /\ (Len(alerts) > 0 => i > Len(alerts))]

Next ==
  \/ RunStart
  \/ ProcessAlert
  \/ BeginAutoClose
  \/ AutoCloseIssue
  \/ Finish
  \/ Rerun

Spec == Init /\ [][Next]_vars

\* ------------------------------------- a project that already has tickets
\* an open ticket labelled dependabot that somebody else filed
SeedIssue(summary, description) ==
  [summary |-> summary, description |-> description, duedate |-> 0,
   status |-> "Open", labels |-> {"dependabot"}, comments |-> <<>>]

\* what such a ticket may carry: nothing the action recognizes; the summary
\* of alert 1 over a body naming alert 2; only a body naming alert 2; a
\* summary marker without a number over a body naming alert 2 without space
SeedIssues ==
  {SeedIssue(<<"Upgrade", " ", "lodash">>, <<>>),
   SeedIssue(<<SummaryMarker, "1", ":", " ", "lodash">>,
             <<"see", " ", BodyMarker, " ", "2">>),
   SeedIssue(<<"Security", " ", "finding">>,
             <<"see", " ", BodyMarker, " ", " ", "2", "x">>),
   SeedIssue(<<SummaryMarker, "x">>, <<BodyMarker, "2">>)}

SeededConfigs ==
  {c \in Configs : /\ c.projectKey = GoodKey
                   /\ c.severityThreshold = "medium"
                   /\ c.autoCloseResolved
                   /\ ~c.dryRun}

\* the project holds one such ticket, or two tickets for alert 1
SeededInit ==
  /\ cfg \in SeededConfigs
  /\ tickets \in {<<t>> : t \in SeedIssues}
                   \cup {<<SeedIssue(<<SummaryMarker, "1", ":", " ", "lodash">>,
                                      <<"first">>),
                           SeedIssue(<<"Re:", " ", SummaryMarker, "1">>,
                                     <<"second">>)>>}
  /\ StartOfRun
  /\ now = 0
  /\ zone = "UTC"
  /\ probe = NoProbe

\* one invocation of the action on such a project
SeededNext ==
  \/ RunStart
  \/ ProcessAlert
  \/ BeginAutoClose
  \/ AutoCloseIssue
  \/ Finish

SeededSpec == SeededInit /\ [][SeededNext]_vars

\* run() is one async function: after each awaited request answers, its
\* continuation is scheduled, so a step that can be taken is taken.
FairSeededSpec == SeededInit /\ [][SeededNext]_vars /\ WF_vars(SeededNext)

\* ------------------------------------------- a dry run, then the real run
\* A dry run on a project that holds tickets for none, one or both of the
\* alerts, followed by a real run.  Nothing changes in between and no
\* request fails in transit: the listing answers the same alerts, which
\* are the open ones, and an alert that is not listed is fixed.
PreviewInit ==
  /\ cfg \in {c \in Configs : /\ c.projectKey = GoodKey
                               /\ c.severityThreshold = "medium"
                               /\ c.autoCloseResolved
                               /\ c.dryRun}
  /\ tickets \in
       {SubSeq(<<SeedIssue(<<SummaryMarker, "1", ":", " ", "lodash">>, <<>>),
                 SeedIssue(<<SummaryMarker, "2", ":", " ", "axios">>, <<>>)>>,
               a, b) : a \in 1..2, b \in 0..2}
  /\ StartOfRun
  /\ now = 0
  /\ zone = "UTC"
  /\ probe = NoProbe

QuietRunStart ==
  /\ RunStart
  /\ faults' = 0
  /\ run = 2 => alerts' = prev.alerts

QuietProcessAlert == ProcessAlert /\ faults' = 0

QuietBeginAutoClose == BeginAutoClose /\ faults' = 0

QuietAutoCloseIssue ==
  /\ AutoCloseIssue
  /\ faults' = 0
  /\ last'.resp \in {"", IF \E k \in DOMAIN alerts :
                              alerts[k].number = last'.id
                         THEN "open" ELSE "fixed"}

\* the real run that follows the dry run; the outputs of the dry run are kept
RealRerun ==
  /\ NextInvocation
  /\ cfg.dryRun
  /\ cfg' = [cfg EXCEPT !.dryRun = FALSE]
  /\ prev' = [ran |-> TRUE, alerts |-> alerts, clean |-> FALSE,
              failed |-> failed, outputs |-> outputs]

PreviewNext ==
  \/ QuietRunStart
  \/ QuietProcessAlert
  \/ QuietBeginAutoClose
  \/ QuietAutoCloseIssue
  \/ Finish
  \/ RealRerun

PreviewSpec == PreviewInit /\ [][PreviewNext]_vars

\* ------------------------------------------------------------- the harness
\* the inputs of an action run whose tickets play no part
DefaultConfig ==
  [projectKey |-> GoodKey, labels |-> <<"dependabot", "security">>,
   severityThreshold |-> "medium", excludeDismissed |-> TRUE,
   updateExisting |-> TRUE, autoCloseResolved |-> TRUE,
   closeTransition |-> CloseTransition, closeComment |-> CloseCommentText,
   dryRun |-> FALSE, dueDays |-> DefaultDueDays]

FnInit ==
  /\ cfg = DefaultConfig
  /\ InitRun
  /\ now \in RunInstants
  /\ zone \in Zones
  /\ probe \in ProbeArguments

\* getDependabotAlerts on a listing of one alert
ApplyFilter ==
  /\ probe.fn = "filter" /\ ~probe.done
  /\ LET r == getDependabotAlerts(
                <<RawAlert(1, probe.severity)>>,
                [excludeDismissed |-> TRUE,
                 severityThreshold |-> probe.threshold],
                TRUE, TRUE)
     IN probe' = [fn |-> "filter", done |-> TRUE,
                  severity |-> probe.severity,
                  threshold |-> probe.threshold,
                  threw |-> r.threw, kept |-> Len(r.alerts) = 1]
  /\ UNCHANGED <<runVars, now, zone>>

\* getConfig reading the four due-day inputs, and the offsets a create of
\* the run then uses
ReadDueDays ==
  /\ probe.fn = "getConfig" /\ ~probe.done
  /\ LET dueDays == getConfigDueDays(probe.with)
     IN probe' = [fn |-> "getConfig", done |-> TRUE, with |-> probe.with,
                  dueDays |-> dueDays,
                  offsets |-> [sv \in Severities |-> DueDays(sv, dueDays)]]
  /\ UNCHANGED <<runVars, now, zone>>

\* calculateDueDate as createJiraIssue calls it, at the instant of the run
ComputeDueDate ==
  /\ probe.fn = "calculateDueDate"
  /\ probe.done => probe.at # now
  /\ probe' = [fn |-> "calculateDueDate", done |-> TRUE,
               severity |-> probe.severity, dueDays |-> probe.dueDays,
               createdAt |-> probe.createdAt, at |-> now,
               days |-> DueDays(probe.severity, probe.dueDays),
               out |-> calculateDueDate(probe.severity, probe.dueDays,
                                        probe.createdAt, now, zone)]
  /\ UNCHANGED <<runVars, now, zone>>

\* parseAlert on one raw alert
NormalizeAlert ==
  /\ probe.fn = "parseAlert" /\ ~probe.done
  /\ probe' = [fn |-> "parseAlert", done |-> TRUE, alert |-> probe.alert,
               threw |-> parseAlertThrows(probe.alert),
               out |-> parseAlert(probe.alert)]
  /\ UNCHANGED <<runVars, now, zone>>

\* the ticket closeJiraIssue is applied to: issue 1 of the project
ProbeTickets ==
  <<SeedIssue(<<SummaryMarker, "1", ":", " ", "lodash">>, <<>>)>>

\* closeJiraIssue on that ticket
CloseIssue ==
  /\ probe.fn = "closeJiraIssue" /\ ~probe.done
  /\ probe' = [fn |-> "closeJiraIssue", done |-> TRUE,
               transition |-> probe.transition, comment |-> probe.comment,
               dryRun |-> probe.dryRun, available |-> probe.available,
               fail |-> probe.fail,
               out |-> closeJiraIssue(ProbeTickets, 1, probe.transition,
                                      probe.comment, probe.dryRun,
                                      probe.available, probe.fail)]
  /\ UNCHANGED <<runVars, now, zone>>

\* createJiraIssue for one alert in an empty project with the configured
\* labels, then findExistingIssue for every alert number,
\* extractAlertIdFromIssue on the new ticket and findOpenDependabotIssues
IdentifyTicket ==
  /\ probe.fn = "ticketIdentity" /\ ~probe.done
  /\ LET raw == [number |-> probe.id,
                 security_advisory |-> [summary |-> Str(probe.title),
                                        severity |-> Str(<<"high">>)]]
         created == createJiraIssue(
                      <<>>, [DefaultConfig EXCEPT !.labels = probe.labels],
                      parseAlert(raw), FALSE, TRUE)
     IN probe' = [fn |-> "ticketIdentity", done |-> TRUE, id |-> probe.id,
                  title |-> probe.title, labels |-> probe.labels,
                  tk |-> created.tk, key |-> created.key,
                  open |-> findOpenDependabotIssues(created.tk, GoodKey,
                                                    TRUE).issues,
                  found |-> [n \in {1, 2, 12} |->
                               findExistingIssue(created.tk, GoodKey, n,
                                                 TRUE).issue],
                  extracted |-> extractAlertIdFromIssue(created.tk[1])]
  /\ UNCHANGED <<runVars, now, zone>>

\* time passes between two runs
Tick ==
  /\ probe.fn = "calculateDueDate" /\ probe.done
  /\ \E t \in RunInstants : t > now /\ now' = t
  /\ UNCHANGED <<runVars, zone, probe>>

FnNext ==
  \/ ApplyFilter
  \/ ReadDueDays
  \/ ComputeDueDate
  \/ NormalizeAlert
  \/ CloseIssue
  \/ IdentifyTicket
  \/ Tick

FnSpec == FnInit /\ [][FnNext]_vars

\* ------------------------------------------------------------ properties
Resolved == {"fixed", "dismissed", "not_found"}

MutatingOps == {"createIssue", "addComment", "transition"}

\* the identifier formats the tests of jira.js expect to be enforced
ValidProjectKey(key) ==
  Len(key) > 0 /\ \A k \in DOMAIN key : key[k] \in KeyChars

\* C1: an exception while one alert is processed is caught and logged, the
\* loop moves on so that every alert of the list is processed, and the run
\* is not marked failed because of it.
C1_AlertFailureIsolated ==
  /\ "alert" \in caught => ~failed
  /\ (pc \in {"loop", "autoclose"} /\ last.kind = "alert" /\ ~last.ok) =>
       /\ Len(logs) > 0
       /\ logs[Len(logs)] = Log("error", "run", last.id)
       /\ i = processedAlerts + 1
  /\ (pc \in {"autoclose", "closing", "summary"}
        \/ (pc = "done" /\ "sync" \in phases)) =>
       processedAlerts = Len(alerts)

\* an alert threw and a later alert of the same run was processed normally
C1_Witness ==
  /\ pc \in {"loop", "autoclose"}
  /\ "alert" \in caught
  /\ last.kind = "alert" /\ last.ok
  /\ ~failed

\* C2: within one run at most one create request is sent per alert number,
\* and a create request is sent only after the search for that number in the
\* same iteration returned no issue.
C2_AtMostOneCreatePerAlert ==
  /\ \A n \in AlertNumbers : createCalls[n] <= 1
  /\ \A k \in DOMAIN calls :
       calls[k].op = "createIssue" =>
         \E m \in 1..(k - 1) : /\ calls[m].op = "search"
                               /\ calls[m].arg = calls[k].arg
                               /\ calls[m].res = 0

\* a create request was sent and answered
C2_Witness ==
  \E k \in DOMAIN calls : /\ calls[k].op = "createIssue" /\ calls[k].ok
                          /\ createCalls[calls[k].arg] = 1

C4_AutoCloseAlwaysRuns ==
  /\ (pc = "done" /\ ~failed /\ cfg.autoCloseResolved) => "close" \in phases
  /\ (pc = "closing" /\ last.kind = "issue" /\ last.ok /\ ~cfg.dryRun
        /\ last.status \in Resolved) =>
       tickets[last.key].status = "Done"

\* C5: an iteration of the auto-close loop whose looked-up status is not
\* fixed, dismissed or not_found sends no transitions, comment or transition
\* request, leaves the ticket system as it is and the closed counter too.
C5_CloseOnlyWhenResolved ==
  [][(pc = "closing" /\ j' = j + 1 /\ last'.status \notin Resolved) =>
       /\ issuesClosed' = issuesClosed
       /\ tickets' = tickets
       /\ \A k \in DOMAIN calls' :
            calls'[k].op \notin {"getTransitions", "addComment",
                                 "transition"}]_vars

\* an issue whose alert has a status the action does not know was left open
C5_Witness ==
  /\ pc = "closing" /\ last.kind = "issue"
  /\ last.status = "auto_dismissed" /\ last.result = "unknown"
  /\ tickets[last.key].status = "Open"
  /\ issuesClosed = 0

\* C6 as stated: in dry-run no mutating request is sent, the ticket system
\* stays as it was, the counters count the intended writes, and the summary
\* of a completed run has the conditional wording.
C6_Original ==
  cfg.dryRun =>
    /\ \A k \in DOMAIN calls : calls[k].op \notin MutatingOps
    /\ tickets = tickets0
    /\ issuesCreated = intended.created
    /\ issuesUpdated = intended.updated
    /\ issuesClosed = intended.closed
    /\ (pc = "done" /\ ~failed) =>
         outputs["summary"].wording = "conditional"

\* C6 amended: as C6, the conditional wording being used when at least one
\* alert passed the filter; with no alert the summary is the fixed sentence
\* "No alerts to process".
C6_DryRunWritesNothing ==
  cfg.dryRun =>
    /\ \A k \in DOMAIN calls : calls[k].op \notin MutatingOps
    /\ tickets = tickets0
    /\ issuesCreated = intended.created
    /\ issuesUpdated = intended.updated
    /\ issuesClosed = intended.closed
    /\ (pc = "done" /\ ~failed /\ "sync" \in phases) =>
         outputs["summary"].wording = "conditional"
    /\ (pc = "done" /\ ~failed /\ "sync" \notin phases) =>
         outputs["summary"].wording = "No alerts to process"

\* a completed dry run that intended a create, an update and a close
C6_Witness ==
  /\ cfg.dryRun /\ pc = "done" /\ ~failed
  /\ issuesCreated > 0 /\ issuesUpdated > 0 /\ issuesClosed > 0
  /\ outputs["summary"].wording = "conditional"
  /\ tickets = tickets0

\* C7: created + updated never exceeds the alerts processed, and closed never
\* exceeds the open issues returned by the enumeration.
C7_CounterBounds ==
  /\ issuesCreated + issuesUpdated <= processedAlerts
  /\ issuesClosed <= Len(openIssues)
  /\ issuesClosed <= j - 1
  /\ (pc = "done" /\ "issues-closed" \in DOMAIN outputs) =>
       /\ outputs["issues-created"] = toDecimalString(issuesCreated)
       /\ outputs["issues-updated"] = toDecimalString(issuesUpdated)
       /\ outputs["issues-closed"] = toDecimalString(issuesClosed)
       /\ outputs["alerts-processed"] = toDecimalString(processedAlerts)

\* a completed run in which both bounds are attained
C7_Witness ==
  /\ pc = "done" /\ ~failed
  /\ processedAlerts = 2
  /\ issuesCreated + issuesUpdated = processedAlerts
  /\ issuesClosed = Len(openIssues) /\ issuesClosed > 0

\* C8: a failure while one issue of the auto-close loop is handled is caught:
\* the loop moves on, every issue of the enumeration is examined, an issue
\* whose alert is resolved and whose own requests succeed is closed, and the
\* run is not marked failed.
C8_IssueFailureIsolated ==
  /\ "issue" \in caught => ~failed
  /\ (pc = "closing" /\ last.kind = "issue" /\ ~last.ok) =>
       /\ Len(logs) > 0
       /\ logs[Len(logs)] = Log("warning", "run", last.key)
       /\ j <= Len(openIssues) + 1
       /\ openIssues[j - 1] = last.key
  /\ (pc \in {"summary", "done"} /\ "close" \in phases) =>
       j = Len(openIssues) + 1
  /\ (pc = "closing" /\ last.kind = "issue" /\ last.ok /\ ~cfg.dryRun
        /\ last.status \in Resolved) =>
       /\ last.result = "closed"
       /\ tickets[last.key].status = "Done"

\* an issue threw and a later issue of the same run was closed
C8_Witness ==
  /\ pc = "closing" /\ "issue" \in caught /\ ~cfg.dryRun
  /\ last.kind = "issue" /\ last.result = "closed"
  /\ tickets[last.key].status = "Done"

\* C9: when the search of findExistingIssue fails, no issue is returned, a
\* warning is logged instead of an exception, and the alert takes the CREATE
\* branch: in a real run the create request is sent.
C9_SearchFailureCreates ==
  (pc \in {"loop", "autoclose"} /\ last.kind = "alert" /\ ~last.searchOk) =>
    /\ last.key = 0
    /\ last.action = "CREATE"
    /\ Len(logs) > 0
    /\ logs[1] = Log("warning", "findExistingIssue", last.id)
    /\ ~cfg.dryRun => createCalls[last.id] = 1

\* the search failed in transit and the ticket was created all the same
C9_Witness ==
  /\ pc \in {"loop", "autoclose"} /\ ProjectExists(cfg.projectKey)
  /\ last.kind = "alert" /\ ~last.searchOk /\ last.ok
  /\ last.result = "CREATE" /\ ~cfg.dryRun
  /\ \E k \in DOMAIN tickets :
       extractAlertIdFromIssue(tickets[k]) = toDecimalString(last.id)

\* C10 as stated: no search request is sent with a project key that has a
\* character other than letters, digits or hyphen, or with an alert id that
\* is not a number.
C10_QueriesValidated ==
  \A k \in DOMAIN calls :
    calls[k].op \in {"search", "searchOpen"} =>
      /\ ValidProjectKey(calls[k].project)
      /\ (calls[k].op = "search" => calls[k].arg \in Nat)

TicketOps ==
  {"search", "createIssue", "addComment", "searchOpen", "getTransitions",
   "transition"}

OutputNames ==
  {"issues-created", "issues-updated", "issues-closed", "alerts-processed",
   "summary"}

ConfigurationErrors == {InputRequiredMessage, ThresholdErrorMessage}

FetchErrors == {TokenErrorMessage, ListErrorMessage}

Unrecognized(word) == ToLower(word) \notin Range(SeverityLevels)

ListingFailed == \E k \in DOMAIN calls : /\ calls[k].op = "listAlerts"
                                         /\ ~calls[k].ok

ListingAnswered == \E k \in DOMAIN calls : /\ calls[k].op = "listAlerts"
                                           /\ calls[k].ok

\* C11: when the enumeration of the open issues fails, the empty list is
\* returned with a warning of findOpenDependabotIssues, nothing is closed,
\* the run completes with the counters of the create/update loop in its
\* outputs, and no run that entered the auto-close phase is marked failed.
C11_EnumerationFailureSoft ==
  /\ "close" \in phases => ~failed
  /\ "enumerate" \in caught =>
       /\ openIssues = <<>>
       /\ issuesClosed = 0 /\ intended.closed = 0
       /\ pc \in {"closing", "done"}
       /\ pc = "closing" =>
            /\ logs = <<Log("warning", "findOpenDependabotIssues", 0)>>
            /\ Len(calls) = 1 /\ calls[1].op = "searchOpen" /\ ~calls[1].ok
       /\ pc = "done" =>
            /\ outputs["issues-created"] = toDecimalString(issuesCreated)
            /\ outputs["issues-updated"] = toDecimalString(issuesUpdated)
            /\ outputs["issues-closed"] = <<"0">>
            /\ "summary" \in DOMAIN outputs

\* the enumeration failed while an open labelled issue existed, and the run
\* completed reporting the issue it had created
C11_Witness ==
  /\ pc = "done" /\ "enumerate" \in caught /\ ~failed
  /\ ProjectExists(cfg.projectKey)
  /\ SearchOpenLabelled(tickets) # <<>>
  /\ issuesCreated = 1 /\ outputs["issues-created"] = <<"1">>

C13_ListFailureFatal ==
  (pc = "done" /\ ListingFailed) =>
    /\ failed /\ failReason = ListErrorMessage
    /\ phases = {}
    /\ processedAlerts = 0
    /\ tickets = tickets0
    /\ outputs = NoOutputs
    /\ \A k \in DOMAIN calls : calls[k].op \notin TicketOps

\* the listing failed in a run that started with tickets of an earlier run
C13_Witness ==
  /\ pc = "done" /\ ListingFailed /\ failed
  /\ run = 2 /\ Len(tickets) > 0

\* C14 as stated: a missing required input or an unrecognized threshold word
\* marks the run failed with that reason, before any alert is normalized and
\* any ticket-system request is made.
C14_Original ==
  (pc = "done" /\ (cfg.projectKey = NoKey
                     \/ Unrecognized(cfg.severityThreshold))) =>
    /\ failed
    /\ failReason = IF cfg.projectKey = NoKey THEN InputRequiredMessage
                    ELSE ThresholdErrorMessage
    /\ processedAlerts = 0 /\ phases = {} /\ alerts = <<>>
    /\ tickets = tickets0
    /\ \A k \in DOMAIN calls : calls[k].op \notin TicketOps

\* C14 amended: as C14, the reason of the failure being the threshold word
\* whenever the listing request was answered: the word is looked at after
\* the token was obtained and the alerts were listed, so a failure of either
\* is the reason reported instead.  A recognized word in capitals is no
\* reason to fail.
C14_ConfigErrorFatal ==
  /\ (pc = "done" /\ (cfg.projectKey = NoKey
                        \/ Unrecognized(cfg.severityThreshold))) =>
       /\ failed
       /\ cfg.projectKey = NoKey =>
            failReason = InputRequiredMessage /\ calls = <<>>
       /\ (cfg.projectKey # NoKey /\ ListingAnswered) =>
            failReason = ThresholdErrorMessage
       /\ (cfg.projectKey # NoKey /\ ~ListingAnswered) =>
            failReason \in FetchErrors
       /\ processedAlerts = 0 /\ phases = {} /\ alerts = <<>>
       /\ outputs = NoOutputs
       /\ tickets = tickets0
       /\ \A k \in DOMAIN calls : calls[k].op \notin TicketOps
  /\ (failed /\ ~Unrecognized(cfg.severityThreshold)) =>
       failReason # ThresholdErrorMessage

\* the alerts were listed and the run failed on the threshold word
C14_Witness ==
  /\ pc = "done" /\ Unrecognized(cfg.severityThreshold)
  /\ ListingAnswered
  /\ failed /\ failReason = ThresholdErrorMessage

\* C16: a run whose alert list is empty after the filter completes without
\* failure, with issues-created, issues-updated and alerts-processed "0" and
\* the summary "No alerts to process", and makes no ticket-system request.
C16_NoAlertsRun ==
  (pc = "done" /\ ~failed /\ Len(alerts) = 0) =>
    /\ OutputNames \ {"issues-closed"} \subseteq DOMAIN outputs
    /\ outputs["issues-created"] = <<"0">>
    /\ outputs["issues-updated"] = <<"0">>
    /\ outputs["alerts-processed"] = <<"0">>
    /\ outputs["summary"].wording = "No alerts to process"
    /\ issuesCreated = 0 /\ issuesUpdated = 0 /\ processedAlerts = 0
    /\ tickets = tickets0
    /\ \A k \in DOMAIN calls : calls[k].op \notin TicketOps

\* a second run found no matching alert and left the tickets of the first
C16_Witness ==
  /\ pc = "done" /\ ~failed /\ Len(alerts) = 0
  /\ run = 2 /\ Len(tickets) > 0
  /\ outputs = NoAlertsOutputs

\* C17 as stated: a finished run that is not marked failed has set the five
\* outputs, the four counters being digit strings.
C17_AllOutputsSet ==
  (pc = "done" /\ ~failed) =>
    /\ DOMAIN outputs = OutputNames
    /\ \A n \in OutputNames \ {"summary"} :
         \E v \in 0..(MaxAlerts * MaxRuns) : outputs[n] = toDecimalString(v)

\* the order low < medium < high < critical
SeverityRank == [low |-> 1, medium |-> 2, high |-> 3, critical |-> 4]

\* the literals of daysMap in calculateDueDate
HardcodedDefault == [critical |-> 1, high |-> 7, medium |-> 30, low |-> 90]

\* the defaults of the due-day inputs in the README and the manifest
DocumentedDefault == [critical |-> 1, high |-> 7, medium |-> 30, low |-> 90]

\* C15: for a severity s and a threshold t among low, medium, high and
\* critical, the alert passes the filter iff s is at or above t in the order
\* low < medium < high < critical; an alert whose severity is missing or is
\* no level passes no threshold.
C15_SeverityFilter ==
  (probe.fn = "filter" /\ probe.done /\ probe.threshold \in Severities) =>
    /\ ~probe.threw
    /\ probe.severity \in Severities =>
         (probe.kept <=> SeverityRank[probe.severity]
                           >= SeverityRank[probe.threshold])
    /\ Unrecognized(probe.severity) => ~probe.kept

\* an alert whose severity is the threshold itself passed
C15_Witness ==
  /\ probe.fn = "filter" /\ probe.done
  /\ probe.severity = "high" /\ probe.threshold = "high"
  /\ probe.kept

\* C18: the offset of calculateDueDate is the configured number of days of
\* the severity; when that is absent, NaN or 0 it is the literal 1, 7, 30 or
\* 90 of the severity; a severity that is none of the four takes the offset
\* of medium, configured or else 30.
C18_OffsetSelection ==
  (probe.fn = "calculateDueDate" /\ probe.done) =>
    LET key == IF probe.severity \in Severities THEN probe.severity
               ELSE "medium"
        v == probe.dueDays[key]
    IN probe.days = IF v.kind = "number" /\ v.n # 0 THEN v.n
                    ELSE HardcodedDefault[key]

\* an unknown severity with medium configured as 0 got 30 days
C18_Witness ==
  /\ probe.fn = "calculateDueDate" /\ probe.done
  /\ probe.severity = "unknown" /\ probe.dueDays.medium = Num(0)
  /\ probe.days = 30

\* C19 as stated: the due date is the day of the alert's creation plus the
\* offset in whole days, whatever the instant of the run; the instant of the
\* run is the reference only when the alert has no creation timestamp.
C19_DueDateFromCreation ==
  (probe.fn = "calculateDueDate" /\ probe.done) =>
    probe.out = probe.days
                  + IsoDate(IF probe.createdAt # NoTimestamp
                              THEN probe.createdAt
                            ELSE probe.at)

\* C20 as stated: for a due-day input that is not supplied the run uses the
\* documented default: 1 day for critical, 7 for high, 30 for medium, 90 for
\* low.
C20_DocumentedDefaults ==
  (probe.fn = "getConfig" /\ probe.done) =>
    \A sv \in Severities :
      (~probe.with[sv].given \/ probe.with[sv].text = <<>>) =>
        probe.offsets[sv] = DocumentedDefault[sv]

\* the id a ticket's summary carries after the summary marker, NoMatch if none
SummaryId(issue) == MatchNumberAfter(issue.summary, SummaryMarker, FALSE)

\* the id a ticket's description carries after "Alert ID:", NoMatch if none
BodyId(issue) == MatchNumberAfter(issue.description, BodyMarker, TRUE)

\* the latest step was an iteration of the auto-close loop
AfterAutoCloseIssue == pc = "closing" /\ last.kind = "issue"

\* C21: the id of a ticket is the one of its summary whenever the summary
\* carries one, whatever the body says, the one of the body only when the
\* summary carries none; a ticket with neither gets a warning that names it
\* and nothing else: no status lookup, no close request, no change.
C21_SummaryBeforeBody ==
  AfterAutoCloseIssue =>
    LET issue == tickets[last.key]
    IN /\ SummaryId(issue) # NoMatch => last.id = parseInt(SummaryId(issue)).n
       /\ (SummaryId(issue) = NoMatch /\ BodyId(issue) # NoMatch) =>
            last.id = parseInt(BodyId(issue)).n
       /\ ((SummaryId(issue) # NoMatch \/ BodyId(issue) # NoMatch)
             /\ last.ok) =>
            /\ Len(calls) > 0
            /\ calls[1].op = "getAlert" /\ calls[1].arg = last.id
       /\ (SummaryId(issue) = NoMatch /\ BodyId(issue) = NoMatch) =>
            /\ last.id = 0 /\ last.result = "skipped"
            /\ calls = <<>>
            /\ logs = <<Log("warning", "extractAlertIdFromIssue", last.key)>>
            /\ tickets[last.key] = tickets0[last.key]
            /\ issuesClosed = 0

\* the status of alert 1 was looked up for a ticket whose summary names
\* alert 1 and whose body names alert 2
C21_Witness ==
  /\ AfterAutoCloseIssue
  /\ SummaryId(tickets[last.key]) = <<"1">>
  /\ BodyId(tickets[last.key]) = <<"2">>
  /\ Len(calls) > 0 /\ calls[1].op = "getAlert" /\ calls[1].arg = 1

\* the latest step applied parseAlert
Normalized == probe.fn = "parseAlert" /\ probe.done

\* the value of a property path of a raw alert, Absent where it breaks off
Raw(alert, path) ==
  IF Len(path) = 1 THEN Field(alert, path[1])
  ELSE IF Len(path) = 2 THEN Opt(Field(alert, path[1]), path[2])
  ELSE Opt(Opt(Field(alert, path[1]), path[2]), path[3])

\* the raw property each optional field of a parsed alert is read from
RawPath ==
  [title |-> <<"security_advisory", "summary">>,
   description |-> <<"security_advisory", "description">>,
   severity |-> <<"security_advisory", "severity">>,
   package |-> <<"dependency", "package", "name">>,
   ecosystem |-> <<"dependency", "package", "ecosystem">>,
   vulnerableVersionRange |->
     <<"security_vulnerability", "vulnerable_version_range">>,
   firstPatchedVersion |->
     <<"security_vulnerability", "first_patched_version", "identifier">>,
   cvss |-> <<"security_advisory", "cvss", "score">>,
   cveId |-> <<"security_advisory", "cve_id">>,
   ghsaId |-> <<"security_advisory", "ghsa_id">>]

\* the documented fallback of each optional field
Fallback(out) ==
  [title |-> Str(<<"Vulnerability in ">> \o out.package.s),
   description |-> Str(<<"No description available">>),
   severity |-> Str(<<"unknown">>),
   package |-> Str(<<"unknown">>),
   ecosystem |-> Str(<<"unknown">>),
   vulnerableVersionRange |-> Str(<<"unknown">>),
   firstPatchedVersion |-> Str(<<"Not available">>),
   cvss |-> Null, cveId |-> Null, ghsaId |-> Null]

\* C22 as stated: parseAlert never fails on a raw alert without advisory,
\* vulnerability or dependency, a field whose raw property is missing gets
\* its fallback, and a field whose raw property is present is carried over
\* unchanged.
C22_Original ==
  Normalized =>
    /\ ~probe.threw
    /\ \A f \in DOMAIN RawPath :
         IF Raw(probe.alert, RawPath[f]) = Absent
           THEN probe.out[f] = Fallback(probe.out)[f]
         ELSE probe.out[f] = Raw(probe.alert, RawPath[f])

\* C22 amended: parseAlert never fails on a raw alert without advisory,
\* vulnerability or dependency; a field whose raw property is missing, null,
\* empty or 0 gets its fallback; every other field is carried over unchanged,
\* the severity in lower case.
C22_Fallbacks ==
  Normalized =>
    /\ ~probe.threw
    /\ probe.out.id = probe.alert.number
    /\ probe.out.url = probe.alert.html_url
    /\ probe.out.state = probe.alert.state
    /\ \A f \in DOMAIN RawPath :
         LET raw == Raw(probe.alert, RawPath[f])
         IN IF raw \in {Absent, Null, Num(0), Str(<<>>)}
              THEN probe.out[f] = Fallback(probe.out)[f]
            ELSE IF f = "severity" THEN probe.out[f] = toLowerCase(raw)
            ELSE probe.out[f] = raw

\* an alert with none of the three sub-structures was parsed
C22_Witness ==
  /\ Normalized
  /\ DOMAIN probe.alert = {"number", "html_url", "state"}
  /\ probe.out.title = Str(<<"Vulnerability in ", "unknown">>)
  /\ probe.out.cvss = Null

\* the requests of one kind among the requests of a step
CountOp(cs, op) == Cardinality({k \in DOMAIN cs : cs[k].op = op})

\* the step is an iteration of the create/update loop
ProcessAlertStep == pc = "loop" /\ processedAlerts' = processedAlerts + 1

\* C23: for one alert, a lookup that returns no ticket is followed by one
\* create (one create request in a real run) and no comment; a lookup that
\* returns a ticket is followed, with update-existing, by one update (one
\* comment request on that ticket in a real run) and no create, and without
\* update-existing by no write at all, both counters staying as they were.
C23_PerAlertDecision ==
  [][ProcessAlertStep =>
       LET sent == IF cfg.dryRun THEN 0 ELSE 1
           comments == {k \in DOMAIN calls' : calls'[k].op = "addComment"}
       IN /\ last'.key = 0 =>
               /\ last'.action = "CREATE"
               /\ CountOp(calls', "createIssue") = sent
               /\ CountOp(calls', "addComment") = 0
               /\ issuesUpdated' = issuesUpdated
               /\ issuesCreated' = issuesCreated + (IF last'.ok THEN 1 ELSE 0)
          /\ (last'.key # 0 /\ cfg.updateExisting) =>
               /\ last'.action = "UPDATE"
               /\ CountOp(calls', "addComment") = sent
               /\ \A k \in comments : calls'[k].arg = last'.key
               /\ CountOp(calls', "createIssue") = 0
               /\ Len(tickets') = Len(tickets)
               /\ issuesCreated' = issuesCreated
               /\ issuesUpdated' = issuesUpdated + (IF last'.ok THEN 1 ELSE 0)
          /\ (last'.key # 0 /\ ~cfg.updateExisting) =>
               /\ last'.action = "SKIP"
               /\ \A k \in DOMAIN calls' : calls'[k].op \notin MutatingOps
               /\ tickets' = tickets
               /\ issuesCreated' = issuesCreated
               /\ issuesUpdated' = issuesUpdated
    ]_vars

\* an alert whose ticket exists was skipped because update-existing is off
C23_Witness ==
  /\ pc \in {"loop", "autoclose"} /\ last.kind = "alert"
  /\ last.key # 0 /\ ~cfg.updateExisting /\ last.action = "SKIP"
  /\ CountOp(calls, "search") = 1 /\ Len(calls) = 1

\* the ticket-system requests of a step all belong to one phase
AllOfPhase(cs, ph) == \A k \in DOMAIN cs : cs[k].ph = ph

\* C24: the k-th iteration of the create/update loop handles the k-th alert
\* of the list and all its requests are about that alert; the requests of
\* the auto-close phase (enumeration, status lookups, comments, transitions)
\* are made after the loop ended: once the phase is entered no request of
\* the create/update phase follows in the same run.
C24_PhaseOrder ==
  [][/\ ProcessAlertStep =>
          /\ "close" \notin phases
          /\ i' = i + 1
          /\ last'.id = alerts[i].number
          /\ AllOfPhase(calls', "sync")
          /\ \A k \in DOMAIN calls' :
               \/ calls'[k].op \in {"search", "createIssue"}
                    /\ calls'[k].arg = alerts[i].number
               \/ calls'[k].op = "addComment" /\ calls'[k].arg = last'.key
          /\ Len(calls') >= 1 /\ calls'[1].op = "search"
     /\ (pc \in {"autoclose", "closing"} /\ run' = run) =>
          /\ AllOfPhase(calls', "close")
          /\ pc' # "loop"
          /\ i' = i /\ processedAlerts' = processedAlerts
     /\ ("close" \in phases /\ run' = run) =>
          /\ AllOfPhase(calls', "close")
          /\ pc' \notin {"start", "loop", "autoclose"}
    ]_vars

\* a ticket is closed after the loop handled two alerts
C24_Witness ==
  /\ AfterAutoCloseIssue /\ last.result = "closed" /\ ~cfg.dryRun
  /\ Len(alerts) = 2 /\ processedAlerts = 2
  /\ CountOp(calls, "transition") = 1

\* the comments a ticket received in the current run
NewComments(k) ==
  IF k \in DOMAIN tickets0
    THEN SubSeq(tickets[k].comments, Len(tickets0[k].comments) + 1,
                Len(tickets[k].comments))
  ELSE tickets[k].comments

\* what the current run did to ticket k
CreatedNow(k) == IF k \in DOMAIN tickets0 THEN 0 ELSE 1

UpdatesNow(k) ==
  Cardinality({m \in DOMAIN NewComments(k) : NewComments(k)[m] = "update"})

CloseCommentsNow(k) ==
  Cardinality({m \in DOMAIN NewComments(k) : NewComments(k)[m] # "update"})

TransitionedNow(k) ==
  tickets[k].status # (IF k \in DOMAIN tickets0 THEN tickets0[k].status
                       ELSE "Open")

ClosesNow(k) ==
  IF CloseCommentsNow(k) > 0 \/ TransitionedNow(k) THEN 1 ELSE 0

\* every alert of the list is handled by one iteration of the loop
EachAlertOnce ==
  /\ processedAlerts <= Len(alerts)
  /\ pc = "loop" => processedAlerts = i - 1
  /\ pc \in {"autoclose", "closing", "summary"} =>
       processedAlerts = Len(alerts)
  /\ \A a, b \in DOMAIN alerts :
       a # b => alerts[a].number # alerts[b].number
  /\ \A n \in AlertNumbers : createCalls[n] <= 1

CloseApplied == probe.fn = "closeJiraIssue" /\ probe.done

\* the positions of the requests of one kind among the requests of a close
Positions(cs, op) == {k \in DOMAIN cs : cs[k].op = op}

\* C26: a real close first reads the transitions; it posts the comment only
\* if the comment is not empty, and then before the transition; with an
\* empty comment the transition is its only write; a close that succeeds
\* with a comment sent the three requests in this order.
C26_CommentThenTransition ==
  (CloseApplied /\ ~probe.dryRun) =>
    LET cs == probe.out.calls
    IN /\ Len(cs) >= 1 /\ cs[1].op = "getTransitions"
       /\ Positions(cs, "getTransitions") = {1}
       /\ Cardinality(Positions(cs, "addComment")) <= 1
       /\ Cardinality(Positions(cs, "transition")) <= 1
       /\ \A a \in Positions(cs, "addComment"),
             b \in Positions(cs, "transition") : a < b
       /\ Positions(cs, "transition") # {} =>
            (Positions(cs, "addComment") # {}) = (probe.comment # "")
       /\ probe.comment = "" =>
            /\ Positions(cs, "addComment") = {}
            /\ probe.out.tk[1].comments = ProbeTickets[1].comments
       /\ probe.out.closed =>
            [k \in DOMAIN cs |-> cs[k].op] =
              (IF probe.comment = "" THEN <<"getTransitions", "transition">>
               ELSE <<"getTransitions", "addComment", "transition">>)

\* a close with a comment succeeded
C26_Witness ==
  /\ CloseApplied /\ ~probe.dryRun /\ probe.out.closed
  /\ probe.comment # ""
  /\ Len(probe.out.calls) = 3
  /\ probe.out.tk[1].comments = <<probe.comment>>

\* the transitions whose name is the requested one but for the case
NamedLike(available, transition) ==
  {k \in DOMAIN available : ToLower(available[k].name) = ToLower(transition)}

\* C27: when a transition has the requested name, compared without regard
\* to case, the transition request carries the id of such a transition and
\* the ticket moves accordingly; when none has, closeJiraIssue throws an
\* error whose message holds the requested name and every available name,
\* and sends no transition request (and no comment).
C27_TransitionByName ==
  (CloseApplied /\ ~probe.dryRun /\ probe.fail = "none") =>
    LET cs == probe.out.calls
        named == NamedLike(probe.available, probe.transition)
    IN /\ named # {} =>
            /\ probe.out.closed /\ ~probe.out.threw
            /\ \E k \in named :
                 /\ cs[Len(cs)].op = "transition"
                 /\ cs[Len(cs)].res = probe.available[k].id
                 /\ probe.out.tk[1].status =
                      TransitionTarget(probe.available[k].id)
       /\ named = {} =>
            /\ probe.out.threw /\ ~probe.out.closed
            /\ Positions(cs, "transition") = {}
            /\ Positions(cs, "addComment") = {}
            /\ probe.out.tk = ProbeTickets
            /\ probe.transition \in Range(probe.out.error)
            /\ \A k \in DOMAIN probe.available :
                 probe.available[k].name \in Range(probe.out.error)

\* the transition DONE was applied for the requested name done
C27_Witness ==
  /\ CloseApplied /\ ~probe.dryRun /\ probe.out.closed
  /\ probe.transition = "done"
  /\ \E k \in DOMAIN probe.available : probe.available[k].name = "DONE"
  /\ probe.out.tk[1].status = "Done"

\* C28: in dry-run mode closeJiraIssue sends no request (no transitions
\* read, no comment, no transition), leaves the ticket as it is and returns
\* closed = false with the dryRun mark, whatever its other arguments.
C28_DryRunClose ==
  (CloseApplied /\ probe.dryRun) =>
    /\ probe.out.calls = <<>>
    /\ ~probe.out.threw
    /\ ~probe.out.closed /\ probe.out.dryRun
    /\ probe.out.tk = ProbeTickets

\* a dry-run close of a ticket whose transition exists
C28_Witness ==
  /\ CloseApplied /\ probe.dryRun
  /\ NamedLike(probe.available, probe.transition) # {}
  /\ probe.out.dryRun /\ probe.out.calls = <<>>

\* C29: the UPDATE of an alert creates no ticket and changes no ticket but
\* the one the lookup returned, to which it appends one comment, every other
\* field (summary, description, due date, status, labels) staying as it was;
\* it sends one comment request and no other write, and in a dry run none.
C29_UpdateAppendsComment ==
  [][(ProcessAlertStep /\ last'.action = "UPDATE") =>
       /\ DOMAIN tickets' = DOMAIN tickets
       /\ last'.key \in DOMAIN tickets
       /\ \A k \in DOMAIN tickets : k # last'.key => tickets'[k] = tickets[k]
       /\ \/ tickets' = tickets
          \/ tickets' = AddComment(tickets, last'.key, "update")
       /\ (~cfg.dryRun /\ last'.ok) =>
            tickets' = AddComment(tickets, last'.key, "update")
       /\ CountOp(calls', "createIssue") = 0
       /\ CountOp(calls', "transition") = 0
       /\ CountOp(calls', "addComment") = (IF cfg.dryRun THEN 0 ELSE 1)
       /\ cfg.dryRun => tickets' = tickets
    ]_vars

\* a closed ticket got an update comment and is still closed
C29_Witness ==
  /\ pc \in {"loop", "autoclose"} /\ last.kind = "alert"
  /\ last.action = "UPDATE" /\ last.ok /\ ~cfg.dryRun
  /\ tickets[last.key].status = "Done"
  /\ Len(tickets[last.key].comments) > 0
  /\ tickets[last.key].comments[Len(tickets[last.key].comments)] = "update"

\* C30: for a ticket that carries an alert id the auto-close loop asks the
\* alert source for the status of that alert and decides on the answer,
\* whether or not the alert is in the batch: answered open, the ticket is
\* left as it is; it is closed only on an answer fixed, dismissed or not
\* found.
C30_DecidesOnLookup ==
  (AfterAutoCloseIssue /\ last.id # 0) =>
    /\ last.ok =>
         /\ Len(calls) >= 1
         /\ calls[1].op = "getAlert" /\ calls[1].arg = last.id
    /\ (last.ok /\ last.status = "open") =>
         /\ last.result = "left"
         /\ Len(calls) = 1
         /\ tickets[last.key].status = "Open"
    /\ last.result = "closed" => last.status \in Resolved
    /\ (last.ok /\ last.status \in Resolved) => last.result = "closed"

\* the ticket of an alert that is open but not in the batch was left open
C30_Witness ==
  /\ AfterAutoCloseIssue /\ last.id # 0 /\ last.ok
  /\ last.id \notin {alerts[k].number : k \in DOMAIN alerts}
  /\ last.status = "open" /\ last.result = "left"
  /\ tickets[last.key].status = "Open"

\* C31: a status lookup answered 404 gives not_found and the ticket is closed
\* (in a real run whose close requests succeed); a lookup that fails in any
\* other way gives unknown, without an exception, and the ticket is left as
\* it is; a state the action does not know is passed through unchanged and
\* the ticket is left as it is; a failure to get the token for the lookup
\* leaves the ticket as it is too.
C31_LookupFailures ==
  [][(pc = "closing" /\ j' = j + 1) =>
       /\ CountOp(calls', "getAlert") = 1 =>
            /\ last'.resp = "404" =>
                 /\ last'.status = "not_found"
                 /\ (last'.ok /\ ~cfg.dryRun) =>
                      /\ last'.result = "closed"
                      /\ tickets'[last'.key].status = "Done"
                      /\ issuesClosed' = issuesClosed + 1
            /\ last'.resp = "error" =>
                 /\ last'.status = "unknown" /\ last'.ok
                 /\ Len(calls') = 1
                 /\ tickets' = tickets
                 /\ issuesClosed' = issuesClosed
            /\ last'.resp \notin {"404", "error"} =>
                 last'.status = last'.resp
            /\ last'.resp \notin {"open", "dismissed", "fixed", "404", "error"} =>
                 /\ last'.result = "unknown"
                 /\ Len(calls') = 1
                 /\ tickets' = tickets
                 /\ issuesClosed' = issuesClosed
       /\ (last'.id # 0 /\ CountOp(calls', "getAlert") = 0) =>
            /\ ~last'.ok
            /\ calls' = <<>>
            /\ tickets' = tickets
            /\ issuesClosed' = issuesClosed
    ]_vars

\* the status lookup of a ticket failed in transit and the ticket stayed open
C31_Witness ==
  /\ AfterAutoCloseIssue /\ last.id # 0
  /\ last.resp = "error" /\ last.status = "unknown" /\ last.ok
  /\ CountOp(calls, "getAlert") = 1 /\ ~calls[1].ok
  /\ tickets[last.key].status = "Open"
  /\ issuesClosed = 0

\* C32: when the search for an alert is answered with more than one ticket,
\* the first ticket of the answer is the one the iteration works on: it is
\* updated with update-existing and skipped without, the other tickets stay
\* as they are, no ticket is created, and the lookup neither throws nor
\* warns (the iteration fails only if its comment request does).
C32_FirstOfSeveral ==
  [][(ProcessAlertStep /\ last'.searchOk
        /\ Len(SearchBySummary(tickets, last'.id)) > 1) =>
       LET hits == SearchBySummary(tickets, last'.id)
       IN /\ last'.key = hits[1]
          /\ \A k \in DOMAIN hits : hits[1] <= hits[k]
          /\ last'.action = (IF cfg.updateExisting THEN "UPDATE" ELSE "SKIP")
          /\ CountOp(calls', "createIssue") = 0
          /\ DOMAIN tickets' = DOMAIN tickets
          /\ \A k \in DOMAIN tickets : k # hits[1] => tickets'[k] = tickets[k]
          /\ \A k \in DOMAIN calls' :
               calls'[k].op = "addComment" => calls'[k].arg = hits[1]
          /\ \A k \in DOMAIN logs' : logs'[k].src # "findExistingIssue"
          /\ ~last'.ok => \E k \in DOMAIN calls' :
                            calls'[k].op = "addComment" /\ ~calls'[k].ok
          /\ issuesCreated' = issuesCreated
    ]_vars

\* two tickets carry the marker of alert 1 and the first got the update
C32_Witness ==
  /\ pc \in {"loop", "autoclose"} /\ last.kind = "alert" /\ last.id = 1
  /\ SearchBySummary(tickets, 1) = <<1, 2>>
  /\ last.key = 1 /\ last.action = "UPDATE" /\ last.ok
  /\ tickets[1].comments = <<"update">>
  /\ tickets[2].comments = <<>>
  /\ issuesCreated = 0

\* C33: an iteration whose create, update or close fails leaves the three
\* counters as they were, the alert being counted as processed all the same;
\* so in a real run the created counter is the number of tickets the run
\* added, the updated counter the number of update comments it posted and
\* the closed counter the number of tickets it transitioned.
C33_CountsSuccessfulWrites ==
  [][/\ (ProcessAlertStep /\ ~last'.ok) =>
          /\ issuesCreated' = issuesCreated
          /\ issuesUpdated' = issuesUpdated
          /\ processedAlerts' = processedAlerts + 1
     /\ ((pc = "closing" /\ j' = j + 1) /\ ~last'.ok) =>
          issuesClosed' = issuesClosed
     /\ (~cfg.dryRun /\ run' = run) =>
          /\ issuesCreated' = Len(tickets') - Len(tickets0')
          /\ issuesCreated' =
               Cardinality({k \in DOMAIN calls' :
                              calls'[k].op = "createIssue" /\ calls'[k].ok})
                 + issuesCreated
          /\ issuesUpdated' =
               Cardinality({k \in DOMAIN calls' :
                              /\ calls'[k].op = "addComment"
                              /\ calls'[k].ph = "sync" /\ calls'[k].ok})
                 + issuesUpdated
          /\ issuesClosed' =
               Cardinality({k \in DOMAIN calls' :
                              calls'[k].op = "transition" /\ calls'[k].ok})
                 + issuesClosed
    ]_vars

\* a real run completed after one of its two creates failed
C33_Witness ==
  /\ pc = "done" /\ ~failed /\ ~cfg.dryRun
  /\ createFailed
  /\ processedAlerts = 2
  /\ issuesCreated = 1 /\ Len(tickets) = Len(tickets0) + 1
  /\ outputs["issues-created"] = <<"1">>
  /\ outputs["alerts-processed"] = <<"2">>

\* C34 as stated: the ticket findExistingIssue returns for an alert number
\* carries that number as its alert id.
C34_MatchesOwnTicket ==
  (probe.fn = "ticketIdentity" /\ probe.done) =>
    \A n \in DOMAIN probe.found :
      probe.found[n] # 0 =>
        extractAlertIdFromIssue(probe.tk[probe.found[n]]) = toDecimalString(n)

\* C35: the ticket createJiraIssue writes for alert N with any title is
\* found by the search for N and its alert id reads N.
C35_IdentityRoundTrip ==
  (probe.fn = "ticketIdentity" /\ probe.done) =>
    /\ probe.key = 1 /\ Len(probe.tk) = 1
    /\ probe.tk[1].summary[1] = SummaryMarker
    /\ probe.found[probe.id] = probe.key
    /\ probe.extracted = toDecimalString(probe.id)
    /\ parseInt(probe.extracted) = Num(probe.id)

\* the ticket of alert 12 whose title names alert 1 reads 12
C35_Witness ==
  /\ (probe.fn = "ticketIdentity" /\ probe.done) /\ probe.id = 12
  /\ probe.title = <<"see", " ", SummaryMarker, "1">>
  /\ probe.tk[1].summary =
       <<SummaryMarker, "1", "2", ":", " ", "see", " ", SummaryMarker, "1">>
  /\ probe.found[12] = 1
  /\ probe.extracted = <<"1", "2">>

\* C36 as stated: a close that ends with an error leaves the ticket as it
\* was: no comment added, status unchanged.
C36_Original ==
  (CloseApplied /\ probe.out.threw) => probe.out.tk = ProbeTickets

\* C36 amended: a close that ends with an error leaves the status of the
\* ticket as it was; the ticket is unchanged when the transitions cannot be
\* read, the transition is not available or the comment request fails; when
\* the transition request fails the comment, if there is one, has been
\* added already and stays on the ticket.
C36_FailedCloseKeepsStatus ==
  (CloseApplied /\ probe.out.threw) =>
    LET cs == probe.out.calls
    IN /\ ~probe.out.closed
       /\ probe.out.tk[1].status = ProbeTickets[1].status
       /\ Len(cs) > 0 /\ (cs[Len(cs)].ok => cs[Len(cs)].op = "getTransitions")
       /\ cs[Len(cs)].op # "transition" => probe.out.tk = ProbeTickets
       /\ cs[Len(cs)].op = "transition" =>
            probe.out.tk =
              (IF probe.comment = "" THEN ProbeTickets
               ELSE AddComment(ProbeTickets, 1, probe.comment))
       /\ Positions(cs, "transition") \subseteq {Len(cs)}

\* the transition request failed after the comment was posted
C36_Witness ==
  /\ CloseApplied /\ probe.out.threw /\ probe.fail = "transition"
  /\ probe.comment # ""
  /\ probe.out.tk[1].comments = <<probe.comment>>
  /\ probe.out.tk[1].status = "Open"
  /\ Positions(probe.out.calls, "addComment") = {2}
  /\ Positions(probe.out.calls, "transition") = {3}

\* C37 as stated: a ticket the create path wrote and nobody resolved is in
\* the answer of findOpenDependabotIssues, whatever labels are configured.
C37_CreatedIsTracked ==
  (probe.fn = "ticketIdentity" /\ probe.done) =>
    (probe.tk[probe.key].status = "Open" => probe.key \in Range(probe.open))

BothCompleted ==
  /\ run = 2 /\ pc = "done" /\ ~failed /\ ~cfg.dryRun
  /\ prev.ran /\ ~prev.failed

Terminated ==
  /\ pc = "done"
  /\ \/ failed /\ failReason # "" /\ outputs = NoOutputs
     \/ /\ ~failed /\ failReason = ""
        /\ "alerts-processed" \in DOMAIN outputs
        /\ i \in {1, Len(alerts) + 1}
        /\ processedAlerts = i - 1

\* C40: a run always terminates: the alert loop and the ticket loop visit
\* each element of a list fetched once exactly once, without retry, and the
\* run reaches its completed or its failed state.
C40_RunTerminates ==
  /\ [][/\ pc # "start" => alerts' = alerts
        /\ pc # "autoclose" => openIssues' = openIssues
        /\ pc = "loop" =>
             /\ i <= Len(alerts)
             /\ i' = i + 1
             /\ last'.kind = "alert" /\ last'.id = alerts[i].number
             /\ processedAlerts' = processedAlerts + 1
             /\ pc' = (IF i = Len(alerts) THEN "autoclose" ELSE "loop")
        /\ pc = "closing" /\ j <= Len(openIssues) =>
             /\ j' = j + 1
             /\ last'.kind = "issue" /\ last'.key = openIssues[j]
             /\ pc' = "closing"
        /\ pc = "closing" /\ j > Len(openIssues) => pc' = "done"
        /\ pc = "done" => FALSE]_vars
  /\ [](pc = "done" => Terminated)
  /\ <>Terminated

\* a completed run that visited two alerts and two tickets
C40_Witness ==
  /\ Terminated /\ ~failed
  /\ Len(alerts) = 2 /\ i = 3
  /\ Len(openIssues) = 2 /\ j = 3

====
